---- MODULE Spec2Model ----
(***************************************************************************)
(* A model of the solid-events core (src/unnamed/part_002, lines 212-553): *)
(* the handler graph built by makeHandler, the three global queues with    *)
(* their running flags, scheduleFlush's microtask, and the promise chains  *)
(* that handler() builds for async transforms.                             *)
(*                                                                         *)
(* JavaScript runs one job to completion at a time, so every action of     *)
(* the model is one job: a user task calling emit or the scope's disposer, *)
(* a timer settling a promise an async transform returned, or the next     *)
(* microtask. The nested calls inside a job (emit -> flushQueues ->        *)
(* flushPure -> Subject.next -> subscriber -> transform -> emit ...) are   *)
(* operators over a record holding the whole program state, composed in    *)
(* the order the code calls them. User tasks run only when the microtask   *)
(* queue is empty (they are new tasks of the event loop).                  *)
(*                                                                         *)
(* `log` is a history variable: one entry per call of user code and per    *)
(* enqueue, each with a snapshot of the running flags and queue lengths    *)
(* at that moment. The properties are stated over it.                      *)
(***************************************************************************)
EXTENDS Integers, Sequences, FiniteSets, TLC

\* Bounds of the model.
MaxSubs == 3        \* subscriptions registered in the scope
MaxEmits == 2       \* emit calls over a run, reentrant ones included
MaxPromises == 2    \* promises returned by async transforms over a run
MaxPath == 4        \* subscriptions along a single path of handlers
MaxBranchSubs == 2  \* subscriptions made beside and below a partition
MaxTopicSubs == 3   \* subscriptions made through a topic
MaxTopicEmits == 1  \* calls of a topic's emitter over a run
MaxPartialSubs == 2 \* subscriptions made through partially applied onTopic
MaxWideSubs == 4    \* subscriptions of a graph with two derived handlers
MaxLiveSubs == 2    \* subscriptions of a graph run under a fair host
MaxGrowSubs == 2    \* subscriptions made through a topic that keeps growing
MaxGrowEmits == 2   \* calls of the emitter of a topic that keeps growing
\* The payloads user tasks emit: one on which the "halt" transform halts
\* and one on which it does not.
Payloads == {1, 2}

VARIABLES
    subs,                          \* the subscriptions, in registration order
    pureQueue,                     \* part_002:414
    mutationListenerQueue,         \* part_002:402
    listenerQueue,                 \* part_002:380
    runningPureQueue,              \* part_002:416
    runningMutationListenerQueue,  \* part_002:404
    runningListenerQueue,          \* part_002:382
    scheduled,                     \* part_002:425
    microtasks,                    \* the host's microtask queue
    promises,                      \* every promise created so far
    log,                           \* history of calls
    nEmits,                        \* emit calls so far
    nEffects,                      \* effects enqueued so far
    disposed,                      \* the scope's disposer has run
    topicTree                      \* part_002:503

vars == <<subs, pureQueue, mutationListenerQueue, listenerQueue,
          runningPureQueue, runningMutationListenerQueue, runningListenerQueue,
          scheduled, microtasks, promises, log, nEmits, nEffects, disposed,
          topicTree>>

\* No exception is unwinding the stack.
NoError == [t |-> "none", v |-> 0]

\* The program state as one record, threaded through the calls of a job.
\* Its field exc holds the exception that is unwinding the call stack, if
\* any: every call that follows a call that threw is skipped.
St ==
    [subs |-> subs, pureQueue |-> pureQueue,
     mutationListenerQueue |-> mutationListenerQueue,
     listenerQueue |-> listenerQueue,
     runningPureQueue |-> runningPureQueue,
     runningMutationListenerQueue |-> runningMutationListenerQueue,
     runningListenerQueue |-> runningListenerQueue,
     scheduled |-> scheduled, microtasks |-> microtasks,
     promises |-> promises, log |-> log, nEmits |-> nEmits,
     nEffects |-> nEffects, disposed |-> disposed, exc |-> NoError]

Commit(s) ==
    /\ topicTree' = topicTree
    /\ subs' = s.subs
    /\ pureQueue' = s.pureQueue
    /\ mutationListenerQueue' = s.mutationListenerQueue
    /\ listenerQueue' = s.listenerQueue
    /\ runningPureQueue' = s.runningPureQueue
    /\ runningMutationListenerQueue' = s.runningMutationListenerQueue
    /\ runningListenerQueue' = s.runningListenerQueue
    /\ scheduled' = s.scheduled
    /\ microtasks' = s.microtasks
    /\ promises' = s.promises
    /\ log' = s.log
    /\ nEmits' = s.nEmits
    /\ nEffects' = s.nEffects
    /\ disposed' = s.disposed

----------------------------------------------------------------------------
\* Values that travel on streams and settle promises.
Val(v) == [t |-> "val", v |-> v]
\* An object: f maps its own keys to their values.
Obj(f) == [t |-> "obj", v |-> f]
Undefined == [t |-> "undef", v |-> 0]
Prom(p) == [t |-> "prom", v |-> p]
\* An instance of HaltError (part_002:328-336), as a value.
HaltError == [t |-> "halt", v |-> 0]
\* A throw in progress, or a rejection: of a HaltError (v = 0).
Thrown(v) == [t |-> "throw", v |-> v]
Pending == [t |-> "pending", v |-> 0]

\* What a subscription was registered with. Streams are numbered: 0 is the
\* Subject of createEvent, i > 0 is next$ of subscription i.
\*   map      handler(p => p + 1), a plain transform or subscriber callback
\*   cb       handler(p => { messages.push(p) }), a subscriber callback
\*   halt     handler(p => p odd ? halt() : p)
\*   async    handler(async p => { await timer; return p + 1 })
\*   asyncNow handler(async p => p + 1): the promise returned is resolved
\*   emitT    handler(p => { emit(p); return p })
\*   throw    handler(p => { if (p odd) throw new Error(); return p })
\*   lis      createListener(handler, effect)
\*   lisEmit  createListener(handler, p => emit(p))
\*   mut      createMutationListener(handler, effect)
\*   mutEmit  createMutationListener(handler, p => emit(p))
\*   lisThrow, mutThrow  listeners whose effect throws an Error on an odd
\*            payload
\*   syncLis  createSyncListener(handler, effect)
\*   partTrue, partFalse  the two transforms createPartition subscribes
TransformKinds ==
    {"map", "cb", "halt", "async", "asyncNow", "emitT", "throw"}
ListenerKinds == {"lis", "lisEmit", "lisThrow"}
MutationKinds == {"mut", "mutEmit", "mutThrow"}
Kinds == TransformKinds \cup ListenerKinds \cup MutationKinds \cup {"syncLis"}

\* One entry of the history: what ran (ev), for which subscription, with
\* which payload, for which emit call, which enqueued effect (id), and the
\* scheduler's state at that moment.
Entry(ev, sub, val, em, id, s) ==
    [ev |-> ev, sub |-> sub, val |-> val, em |-> em, id |-> id,
     rp |-> s.runningPureQueue, rm |-> s.runningMutationListenerQueue,
     rl |-> s.runningListenerQueue, pq |-> Len(s.pureQueue),
     dis |-> s.disposed]

Logged(ev, sub, val, em, id, s) ==
    [s EXCEPT !.log = Append(@, Entry(ev, sub, val, em, id, s))]

Raised(s) == s.exc # NoError

----------------------------------------------------------------------------
\* The host: promises and the microtask queue.

FlushJob ==
    [job |-> "flush", p |-> 0, sub |-> 0, target |-> 0, em |-> 0,
     out |-> Undefined]
SettleJob(p, out) ==
    [job |-> "settle", p |-> p, sub |-> 0, target |-> 0, em |-> 0,
     out |-> out]
ReactionJob(p, r) ==
    [job |-> r.kind, p |-> p, sub |-> r.sub, target |-> r.target,
     em |-> r.em, out |-> Undefined]

\* A promise: its outcome (Pending, a value, or Thrown for a rejection),
\* the reactions registered with then(), and for the promise an async
\* transform returned (user = TRUE) the value it resolves to when it does.
NewPromise(user, sub, em, res) ==
    [out |-> Pending, reactions |-> <<>>, user |-> user, sub |-> sub,
     em |-> em, res |-> res]

\* then() that registers nothing.
thenForgets(p, r, s) == s

\* promise.then(...): the reaction waits for the promise, or is queued at
\* once when the promise is already settled.
then(p, r, s) ==
    IF s.promises[p].out = Pending
    THEN [s EXCEPT !.promises[p].reactions = Append(@, r)]
    ELSE [s EXCEPT !.microtasks = Append(@, ReactionJob(p, r))]

\* Settling a promise queues one microtask per reaction, in then() order.
settlePromise(p, out, s) ==
    LET rs == s.promises[p].reactions
    IN [s EXCEPT !.promises[p].out = out,
                 !.promises[p].reactions = <<>>,
                 !.microtasks = @ \o [k \in 1..Len(rs) |-> ReactionJob(p, rs[k])]]

\* The promise handler() derives is settled one microtask after the
\* reaction that computed its outcome (the .catch(handleError) link).
queueSettle(p, out, s) ==
    [s EXCEPT !.microtasks = Append(@, SettleJob(p, out))]

----------------------------------------------------------------------------
\* handleError without its return: a HaltError is swallowed as undefined.
handleErrorReturnsNothing(e) ==
    IF e.v # 0 THEN e ELSE Undefined

\* handleError that swallows every error the way it swallows a HaltError.
handleErrorSwallowsAll(e) == HaltError

\* handleError without its instanceof test: every error is thrown again.
handleErrorRethrows(e) == e

\* part_002:338-342. A thrown HaltError is returned as a value; anything
\* else is thrown again.
handleError(e) ==
    IF e.v # 0 THEN e ELSE HaltError

\* scheduleFlush that queues no microtask.
scheduleFlushNothing(s) == s

\* scheduleFlush without its test of the scheduled flag.
scheduleFlushUnguarded(s) ==
    [s EXCEPT !.scheduled = TRUE,
              !.microtasks = Append(@, FlushJob)]

\* part_002:427-434.
scheduleFlush(s) ==
    IF s.scheduled THEN s
    ELSE [s EXCEPT !.scheduled = TRUE,
                   !.microtasks = Append(@, FlushJob)]

\* The task () => stream.next(item) that handler and emit push.
PureTask(stream, item, em) == [stream |-> stream, item |-> item, em |-> em]
\* The task () => effect(e) that the listeners push.
EffectTask(sub, val, em, id) == [sub |-> sub, val |-> val, em |-> em, id |-> id]

\* Sequencing below: a statement runs on the state the previous statement
\* left, unless that statement threw (the exception unwinds past it).
\* The predicate given to createPartition: truthy on 1, falsy on 2, and on
\* any other payload it throws an error (not a HaltError).
predicate(v) ==
    IF v = 1 THEN "true" ELSE IF v = 2 THEN "false" ELSE "throw"

\* part_002:351, p => (predicate(p) ? p : halt()): what the call returns
\* or throws.
trueHandler(e) ==
    LET b == predicate(e.v)
    IN IF b = "throw" THEN Thrown(1)
       ELSE IF b = "true" THEN e ELSE Thrown(0)

\* The second transform of createPartition with the first one's test.
falseHandlerSameTest(e) == trueHandler(e)

\* part_002:352, p => (predicate(p) ? halt() : p).
falseHandler(e) ==
    LET b == predicate(e.v)
    IN IF b = "throw" THEN Thrown(1)
       ELSE IF b = "true" THEN Thrown(0) ELSE e

RECURSIVE flushQueues(_), flushPure(_), whilePureQueue(_)
RECURSIVE whilePureQueuePop(_)
RECURSIVE flushMutationListeners(_), forEachMutation(_, _, _)
RECURSIVE flushListeners(_), forEachListener(_, _, _)
RECURSIVE next(_, _, _, _), nextFrom(_, _, _, _, _), handler(_, _, _, _)
RECURSIVE transform(_, _, _, _), emit(_, _), effect(_, _, _)
RECURSIVE emitter(_, _, _)

\* createListener with unshift in place of push.
createListenerUnshift(i, e, em, s) ==
    LET id == s.nEffects + 1
        s1 == [s EXCEPT !.nEffects = id,
                        !.listenerQueue = <<EffectTask(i, e, em, id)>> \o @]
    IN [s |-> scheduleFlush(Logged("enqL", i, e, em, id, s1)), r |-> Undefined]

\* part_002:360-363, the transform createListener subscribes.
createListener(i, e, em, s) ==
    LET id == s.nEffects + 1
        s1 == [s EXCEPT !.nEffects = id,
                        !.listenerQueue = Append(@, EffectTask(i, e, em, id))]
    IN [s |-> scheduleFlush(Logged("enqL", i, e, em, id, s1)), r |-> Undefined]

\* createMutationListener with unshift in place of push.
createMutationListenerUnshift(i, e, em, s) ==
    LET id == s.nEffects + 1
        s1 == [s EXCEPT !.nEffects = id,
                        !.mutationListenerQueue =
                            <<EffectTask(i, e, em, id)>> \o @]
    IN [s |-> scheduleFlush(Logged("enqM", i, e, em, id, s1)), r |-> Undefined]

\* part_002:396-399, the transform createMutationListener subscribes.
createMutationListener(i, e, em, s) ==
    LET id == s.nEffects + 1
        s1 == [s EXCEPT !.nEffects = id,
                        !.mutationListenerQueue = Append(@, EffectTask(i, e, em, id))]
    IN [s |-> scheduleFlush(Logged("enqM", i, e, em, id, s1)), r |-> Undefined]

\* The user's effect of a listener or mutation listener, called with the
\* payload. The Emit kinds call the emitter (while the run's budget lasts).
effect(ev, q, s) ==
    LET s1 == Logged(ev, q.sub, q.val, q.em, q.id, s)
    IN IF s.subs[q.sub].kind \in {"lisEmit", "mutEmit"} /\ s1.nEmits < MaxEmits
       THEN emit(q.val.v, s1)
       ELSE IF s.subs[q.sub].kind \in {"lisThrow", "mutThrow"}
               /\ q.val.v % 2 = 1
       THEN [s1 EXCEPT !.exc = Thrown(1)]
       ELSE s1

\* transform(e) of subscription i: the state after the call and what it
\* returned (or threw).
transform(i, e, em, s) ==
    LET k == s.subs[i].kind
        s1 == Logged("tr", i, e, em, 0, s)
    IN CASE k = "map" -> [s |-> s1, r |-> Val(e.v + 1)]
         [] k = "cb" -> [s |-> s1, r |-> Undefined]
         [] k = "halt" ->
              [s |-> s1, r |-> IF e.v % 2 = 1 THEN Thrown(0) ELSE e]
         [] k = "throw" ->
              [s |-> s1, r |-> IF e.v % 2 = 1 THEN Thrown(1) ELSE e]
         [] k = "async" ->
              [s |-> [s1 EXCEPT !.promises =
                          Append(@, NewPromise(TRUE, i, em, Val(e.v + 1)))],
               r |-> Prom(Len(s1.promises) + 1)]
         [] k = "asyncNow" ->
              [s |-> [s1 EXCEPT !.promises =
                          Append(@, [NewPromise(TRUE, i, em, Val(e.v + 1))
                                        EXCEPT !.out = Val(e.v + 1)])],
               r |-> Prom(Len(s1.promises) + 1)]
         [] k = "emitT" ->
              LET returned(s2) ==
                      IF Raised(s2)
                      THEN [s |-> [s2 EXCEPT !.exc = NoError], r |-> s2.exc]
                      ELSE [s |-> s2, r |-> e]
              IN returned(IF s1.nEmits < MaxEmits THEN emit(e.v, s1) ELSE s1)
         [] k = "syncLis" -> [s |-> s, r |-> Undefined]
         [] k = "partTrue" -> [s |-> s1, r |-> trueHandler(e)]
         [] k = "partFalse" -> [s |-> s1, r |-> falseHandler(e)]
         [] k \in ListenerKinds -> createListener(i, e, em, s)
         [] k \in MutationKinds -> createMutationListener(i, e, em, s)

\* The syncTransform branch without its call: no effect is enqueued.
syncTransformNotCalled(i, e, em, s) == s

\* part_002:238-244 with the syncTransform of createSyncListener
\* (part_002:373-376): Promise.resolve(e) is e when e is a promise and a
\* resolved promise otherwise; then(filter) derives the promise f that is
\* handed to the effect, which is pushed on the listener queue.
syncTransform(i, e, em, s) ==
    LET src == IF e.t = "prom" THEN e.v ELSE Len(s.promises) + 1
        s1 == IF e.t = "prom" THEN s
              ELSE [s EXCEPT !.promises =
                       Append(@, [NewPromise(FALSE, i, em, Undefined)
                                     EXCEPT !.out = e])]
        f == Len(s1.promises) + 1
        s2 == [s1 EXCEPT !.promises =
                   Append(@, NewPromise(FALSE, i, em, Undefined))]
        s3 == then(src, [kind |-> "filter", sub |-> i, target |-> f,
                         em |-> em], s2)
        id == s.nEffects + 1
        s4 == [s3 EXCEPT !.nEffects = id,
                         !.listenerQueue =
                             Append(@, EffectTask(i, Prom(f), em, id))]
    IN scheduleFlush(Logged("enqL", i, Prom(f), em, id, s4))

\* handler's callback without the instanceof Promise branch: a promise
\* is handed to the transform like any value.
handlerNoFlatten(i, e, em, s) ==
    LET push(tr) ==
            IF tr.r.t = "throw"
            THEN LET h == handleError(tr.r)
                 IN IF h.t = "throw" THEN [tr.s EXCEPT !.exc = h] ELSE tr.s
            ELSE [tr.s EXCEPT !.pureQueue = Append(@, PureTask(i, tr.r, em))]
    IN push(transform(i, e, em, s))

\* handler's callback with next$.next(o) called inline in place of the
\* push on the pure queue.
handlerInline(i, e, em, s) ==
    LET push(tr) ==
            IF tr.r.t = "throw"
            THEN LET h == handleError(tr.r)
                 IN IF h.t = "throw" THEN [tr.s EXCEPT !.exc = h] ELSE tr.s
            ELSE next(i, tr.r, em, tr.s)
    IN push(transform(i, e, em, s))

\* part_002:236-259, the callback handler() subscribes to its stream.
handler(i, e, em, s) ==
    LET rest(s0) ==
          IF e.t = "prom"
          THEN \* e.then(...).catch(handleError): a new promise, chained on e
               LET o == Len(s0.promises) + 1
                   s1 == [s0 EXCEPT !.promises =
                              Append(@, NewPromise(FALSE, i, em, Undefined))]
                   s2 == then(e.v, [kind |-> "chain", sub |-> i, target |-> o,
                                    em |-> em], s1)
               IN [s2 EXCEPT !.pureQueue = Append(@, PureTask(i, Prom(o), em))]
          ELSE LET push(tr) ==
                       IF tr.r.t = "throw"
                       THEN \* catch (e) { handleError(e) }: a halt is
                            \* swallowed, anything else leaves the callback
                            \* as an exception
                            LET h == handleError(tr.r)
                            IN IF h.t = "throw" THEN [tr.s EXCEPT !.exc = h]
                               ELSE tr.s
                       ELSE [tr.s EXCEPT !.pureQueue =
                                 Append(@, PureTask(i, tr.r, em))]
               IN push(transform(i, e, em, s0))
    IN rest(IF s.subs[i].kind = "syncLis"
            THEN syncTransform(i, e, em, s) ELSE s)

\* Subject.next: the item goes to every live subscriber of the stream, in
\* subscription order (an exception leaving a subscriber ends the call).
nextFrom(i, stream, item, em, s) ==
    IF i > Len(s.subs) \/ Raised(s) THEN s
    ELSE nextFrom(i + 1, stream, item, em,
                  IF s.subs[i].up = stream /\ s.subs[i].alive
                  THEN handler(i, item, em, s)
                  ELSE s)

next(stream, item, em, s) == nextFrom(1, stream, item, em, s)

\* The pure drain with pop in place of shift: the newest task runs first.
whilePureQueuePop(s) ==
    IF s.pureQueue = <<>> \/ Raised(s) THEN s
    ELSE LET task == s.pureQueue[Len(s.pureQueue)]
         IN whilePureQueuePop(
                next(task.stream, task.item, task.em,
                     [s EXCEPT !.pureQueue = SubSeq(@, 1, Len(@) - 1)]))

\* The pure drain with an if in place of the while: one task is run.
whilePureQueueOnce(s) ==
    IF s.pureQueue = <<>> \/ Raised(s) THEN s
    ELSE LET task == Head(s.pureQueue)
         IN next(task.stream, task.item, task.em,
                 [s EXCEPT !.pureQueue = Tail(@)])

\* part_002:421, while (pureQueue.length) pureQueue.shift()!()
whilePureQueue(s) ==
    IF s.pureQueue = <<>> \/ Raised(s) THEN s
    ELSE LET task == Head(s.pureQueue)
         IN whilePureQueue(next(task.stream, task.item, task.em,
                                [s EXCEPT !.pureQueue = Tail(@)]))

\* flushPure without its guard: a nested call drains the queue too.
flushPureUnguarded(s) ==
    LET done(s1) ==
            IF Raised(s1) THEN s1
            ELSE [s1 EXCEPT !.runningPureQueue = FALSE]
    IN done(whilePureQueue([s EXCEPT !.runningPureQueue = TRUE]))

\* part_002:418-423.
flushPure(s) ==
    IF s.runningPureQueue THEN s
    ELSE LET done(s1) ==
                 IF Raised(s1) THEN s1
                 ELSE [s1 EXCEPT !.runningPureQueue = FALSE]
         IN done(whilePureQueue([s EXCEPT !.runningPureQueue = TRUE]))

\* Array.prototype.forEach visits the indices below the length the array
\* had when forEach was called; what a callback appends is not visited.
forEachMutation(i, n, s) ==
    IF i > n \/ Raised(s) THEN s
    ELSE forEachMutation(i + 1, n, effect("mut", s.mutationListenerQueue[i], s))

\* part_002:406-412.
flushMutationListeners(s) ==
    IF s.runningMutationListenerQueue THEN s
    ELSE LET done(s1) ==
                 IF Raised(s1) THEN s1
                 ELSE [s1 EXCEPT !.mutationListenerQueue = <<>>,
                                 !.runningMutationListenerQueue = FALSE]
         IN done(forEachMutation(1, Len(s.mutationListenerQueue),
                     [s EXCEPT !.runningMutationListenerQueue = TRUE]))

forEachListener(i, n, s) ==
    IF i > n \/ Raised(s) THEN s
    ELSE forEachListener(i + 1, n, effect("lis", s.listenerQueue[i], s))

\* flushListeners that leaves the queue as it is after the drain.
flushListenersNoClear(s) ==
    IF s.runningListenerQueue THEN s
    ELSE LET done(s1) ==
                 IF Raised(s1) THEN s1
                 ELSE [s1 EXCEPT !.runningListenerQueue = FALSE]
         IN done(forEachListener(1, Len(s.listenerQueue),
                     [s EXCEPT !.runningListenerQueue = TRUE]))

\* flushListeners with its body in try/finally: the flag is cleared when
\* an effect throws.
flushListenersFinally(s) ==
    IF s.runningListenerQueue THEN s
    ELSE LET done(s1) ==
                 IF Raised(s1) THEN [s1 EXCEPT !.runningListenerQueue = FALSE]
                 ELSE [s1 EXCEPT !.listenerQueue = <<>>,
                                 !.runningListenerQueue = FALSE]
         IN done(forEachListener(1, Len(s.listenerQueue),
                     [s EXCEPT !.runningListenerQueue = TRUE]))

\* part_002:384-390.
flushListeners(s) ==
    IF s.runningListenerQueue THEN s
    ELSE LET done(s1) ==
                 IF Raised(s1) THEN s1
                 ELSE [s1 EXCEPT !.listenerQueue = <<>>,
                                 !.runningListenerQueue = FALSE]
         IN done(forEachListener(1, Len(s.listenerQueue),
                     [s EXCEPT !.runningListenerQueue = TRUE]))

\* flushQueues that drains the pure queue only: the effects wait for the
\* microtask.
flushQueuesPureOnly(s) == flushPure(s)

\* flushQueues with the listener queue drained before the mutation queue.
flushQueuesListenersFirst(s) ==
    LET third(s2) == IF Raised(s2) THEN s2 ELSE flushMutationListeners(s2)
        second(s1) == IF Raised(s1) THEN s1 ELSE third(flushListeners(s1))
    IN second(flushPure(s))

\* part_002:436-440.
flushQueues(s) ==
    LET third(s2) == IF Raised(s2) THEN s2 ELSE flushListeners(s2)
        second(s1) == IF Raised(s1) THEN s1 ELSE third(flushMutationListeners(s1))
    IN second(flushPure(s))

\* part_002:272, the emitter createEvent returns, for the event whose
\* Subject is `stream`: (e) => (pureQueue.push(() => $.next(e)),
\* flushQueues()).
emitter(stream, e, s) ==
    LET em == s.nEmits + 1
        s1 == Logged("emit", 0, e, em, stream, [s EXCEPT !.nEmits = em])
        s2 == [s1 EXCEPT !.pureQueue = Append(@, PureTask(stream, e, em))]
        returns(s3) ==
            IF Raised(s3) THEN s3 ELSE Logged("ret", 0, e, em, stream, s3)
    IN returns(flushQueues(s2))

\* The emitter of the event of createEvent (stream 0).
emit(v, s) == emitter(0, Val(v), s)

----------------------------------------------------------------------------
\* createTopic (part_002:502-552). A node of topicTree is named by its key
\* path; topicTree.nodes are the nodes that exist and topicTree.events the
\* nodes that hold an event; topicTree.made lists the nodes createEvent was
\* called for, one entry per call. The Subject of an event made at a node
\* is a stream numbered below zero.

\* The keys used, in the order object literals list them.
TopicKeys == <<"a", "b">>

RECURSIVE Code(_)
Code(key) ==
    IF key = <<>> THEN 0
    ELSE 3 * Code(SubSeq(key, 1, Len(key) - 1))
         + (IF key[Len(key)] = "a" THEN 1 ELSE 2)
NodeStream(key) == 0 - (1 + Code(key))

\* The Subject of the n-th event made at a node (the first is NodeStream),
\* and the Subject of the pair the node holds: the last one made there.
EventStream(key, n) == NodeStream(key) - 100 * (n - 1)
Made(key, tree) ==
    Cardinality({n \in 1..Len(tree.made) : tree.made[n] = key})
CurrentEvent(key, tree) == EventStream(key, Made(key, tree))

\* part_002:514-517, the reduce that walks the key path from the root and
\* creates the nodes that are missing.
withNodes(key, tree) ==
    [tree EXCEPT !.nodes = @ \cup {SubSeq(key, 1, i) : i \in 0..Len(key)}]

\* The event of the addressed node made anew at every subscription.
withEventAlways(key, tree) ==
    [tree EXCEPT !.events = @ \cup {key}, !.made = Append(@, key)]

\* part_002:519-521: if (!node[$EVENT]) node[$EVENT] = createEvent().
withEvent(key, tree) ==
    IF key \in tree.events THEN tree
    ELSE [tree EXCEPT !.events = @ \cup {key}, !.made = Append(@, key)]

\* Object.keys(payload)
ObjectKeys(payload) ==
    SelectSeq(TopicKeys, LAMBDA k : k \in DOMAIN payload.v)

\* wrap that leaves the payload bare.
wrapNothing(key, payload) == payload

\* part_002:538-544: key.toReversed().forEach(k => p = { [k]: p })
RECURSIVE wrap(_, _)
wrap(key, payload) ==
    IF key = <<>> THEN payload
    ELSE Obj(Head(key) :> wrap(Tail(key), payload))

\* A TypeError: a property of undefined was read.
TypeError == Thrown(2)

RECURSIVE emitTopic(_, _, _), forEachKey(_, _, _, _), forPrefix(_, _, _, _)

\* part_002:537-548, the loop over the prefixes of the key path from
\* index i on. Reading a child of a node that does not exist, or the event
\* of one, throws; a node without an event is passed over.
forPrefix(i, key, payload, s) ==
    IF i > Len(key) \/ Raised(s) THEN s
    ELSE IF SubSeq(key, 1, i) \notin topicTree.nodes
    THEN [s EXCEPT !.exc = TypeError]
    ELSE forPrefix(i + 1, key, payload,
            IF SubSeq(key, 1, i) \in topicTree.events
            THEN emitter(CurrentEvent(SubSeq(key, 1, i), topicTree),
                         wrap(SubSeq(key, i + 1, Len(key)), payload), s)
            ELSE s)

\* The loop over the keys of an object payload that calls nothing.
forEachKeyNothing(ks, key, payload, s) == s

\* part_002:530-533: Object.keys(payload).forEach(k => emit(...key, k,
\* payload[k])), from the keys ks on.
forEachKey(ks, key, payload, s) ==
    IF ks = <<>> \/ Raised(s) THEN s
    ELSE forEachKey(Tail(ks), key, payload,
                    emitTopic(Append(key, Head(ks)), payload.v[Head(ks)], s))

\* The topic emitter that also emits an object payload at its own node.
emitTopicObjectToo(key, payload, s) ==
    IF payload.t = "obj"
    THEN forPrefix(Len(key), key, payload,
                   forEachKey(ObjectKeys(payload), key, payload, s))
    ELSE forPrefix(0, key, payload, s)

\* part_002:526-549, the emitter createTopic returns.
emitTopic(key, payload, s) ==
    IF payload.t = "obj"
    THEN forEachKey(ObjectKeys(payload), key, payload, s)
    ELSE forPrefix(0, key, payload, s)

\* One microtask: the flush scheduleFlush queued (part_002:430-433), a
\* reaction of the chain handler() built (part_002:248-252), or the
\* settling of a derived promise.
runMicrotask(job, s) ==
    CASE job.job = "flush" -> flushQueues([s EXCEPT !.scheduled = FALSE])
      [] job.job = "settle" -> settlePromise(job.p, job.out, s)
      [] job.job = "filter" ->
           \* part_002:240-242: a HaltError is filtered to undefined; a
           \* rejection passes (then() was given no rejection handler)
           LET src == s.promises[job.p].out
           IN settlePromise(job.target,
                            IF src.t = "halt" THEN Undefined ELSE src, s)
      [] job.job = "adopt" ->
           LET src == s.promises[job.p].out
           IN queueSettle(job.target,
                          IF src.t = "throw" THEN handleError(src) ELSE src, s)
      [] job.job = "chain" ->
           LET src == s.promises[job.p].out
           IN IF src.t = "throw"
              THEN queueSettle(job.target, handleError(src), s)
              ELSE IF src.t = "halt"
              THEN queueSettle(job.target, src, s)
              ELSE LET settles(tr) ==
                           IF tr.r.t = "prom"
                           THEN then(tr.r.v,
                                     [kind |-> "adopt", sub |-> job.sub,
                                      target |-> job.target, em |-> job.em],
                                     tr.s)
                           ELSE IF tr.r.t = "throw"
                           THEN queueSettle(job.target, handleError(tr.r), tr.s)
                           ELSE queueSettle(job.target, tr.r, tr.s)
                   IN settles(transform(job.sub, src, job.em, s))

----------------------------------------------------------------------------
\* The jobs.

\* handler() without its onCleanup: disposal unsubscribes nothing.
onCleanupMissing(ss) == ss

\* part_002:260, onCleanup(() => sub.unsubscribe()): what the scope's
\* disposer does to the subscriptions registered in it.
onCleanup(ss) ==
    [i \in 1..Len(ss) |-> [ss[i] EXCEPT !.alive = FALSE]]

\* The end of a job: an exception nothing caught is reported by the host.
EndJob(s) ==
    Commit(IF Raised(s)
           THEN [Logged("uncaught", 0, s.exc, 0, 0, s) EXCEPT !.exc = NoError]
           ELSE s)

Init ==
    /\ subs = <<>>
    /\ pureQueue = <<>>
    /\ mutationListenerQueue = <<>>
    /\ listenerQueue = <<>>
    /\ runningPureQueue = FALSE
    /\ runningMutationListenerQueue = FALSE
    /\ runningListenerQueue = FALSE
    /\ scheduled = FALSE
    /\ microtasks = <<>>
    /\ promises = <<>>
    /\ log = <<>>
    /\ nEmits = 0
    /\ nEffects = 0
    /\ disposed = FALSE
    /\ topicTree = [nodes |-> {<<>>}, events |-> {}, made |-> <<>>]

\* The scope's builder registers a subscription: handler(transform),
\* createListener(handler, effect) or createMutationListener(handler,
\* effect), on the event's handler (up = 0) or on a handler derived by an
\* earlier transform. The graph is built before the first emit.
Subscribe(K) ==
    /\ nEmits = 0 /\ ~disposed
    /\ Len(subs) < MaxSubs
    /\ \E k \in K, up \in 0..Len(subs) :
          /\ up > 0 => subs[up].kind \in TransformKinds
          /\ subs' = Append(subs, [up |-> up, kind |-> k, alive |-> TRUE])
    /\ UNCHANGED <<pureQueue, mutationListenerQueue, listenerQueue,
                   runningPureQueue, runningMutationListenerQueue,
                   runningListenerQueue, scheduled, microtasks, promises,
                   log, nEmits, nEffects, disposed, topicTree>>

\* The promises async transforms have returned so far, and the async
\* transforms of the graph (each is called at most once per emit).
UserPromises == {p \in 1..Len(promises) : promises[p].user}
AsyncSubs == {i \in 1..Len(subs) : subs[i].kind = "async"}

\* A user task calls the emitter with a payload of P.
Emit(P) ==
    /\ microtasks = <<>>
    /\ nEmits < MaxEmits
    /\ Cardinality(UserPromises) + Cardinality(AsyncSubs) <= MaxPromises
    /\ \E v \in P : EndJob(emit(v, St))

\* A user task calls the scope's disposer: every onCleanup registered at
\* part_002:260 unsubscribes its subscription.
Dispose ==
    /\ microtasks = <<>>
    /\ ~disposed
    /\ subs # <<>>
    /\ Commit(Logged("dispose", 0, Undefined, 0, 0,
                     [St EXCEPT !.subs = onCleanup(subs),
                                !.disposed = TRUE]))

\* The promise an async transform returned settles: it resolves to the
\* transform's result, or rejects with a HaltError (the transform called
\* halt()).
Settle ==
    /\ microtasks = <<>>
    /\ \E p \in 1..Len(promises), out \in {"resolve", "halt"} :
          /\ promises[p].user
          /\ promises[p].out = Pending
          /\ LET o == IF out = "resolve" THEN promises[p].res ELSE Thrown(0)
             IN Commit(settlePromise(p, o,
                    Logged(out, promises[p].sub, o, promises[p].em, p, St)))

\* The promise an async transform returned rejects with an error that is
\* not a HaltError (the transform threw it after an await).
Reject ==
    /\ microtasks = <<>>
    /\ \E p \in 1..Len(promises) :
          /\ promises[p].user
          /\ promises[p].out = Pending
          /\ Commit(settlePromise(p, Thrown(1),
                 Logged("reject", promises[p].sub, Thrown(1),
                        promises[p].em, p, St)))

\* The host runs the next microtask (s is the state the job leaves).
RunMicrotask ==
    /\ microtasks # <<>>
    /\ \E s \in {runMicrotask(Head(microtasks),
                               [St EXCEPT !.microtasks = Tail(@)])} :
          EndJob(s)

Next ==
    \/ Subscribe(Kinds)
    \/ Emit(Payloads)
    \/ Dispose
    \/ Settle
    \/ RunMicrotask

Spec == Init /\ [][Next]_vars

\* Graphs of synchronous transforms none of which calls an emitter.
SyncKinds == {"map", "halt", "lis", "mut"}

NextSync ==
    \/ Subscribe(SyncKinds)
    \/ Emit(Payloads)
    \/ RunMicrotask

SpecSync == Init /\ [][NextSync]_vars

\* Graphs whose transforms and effects call the emitter.
ReentrantKinds == {"map", "emitT", "lis", "lisEmit", "mut", "mutEmit"}

NextReentrant ==
    \/ Subscribe(ReentrantKinds)
    \/ Emit(Payloads)
    \/ RunMicrotask

SpecReentrant == Init /\ [][NextReentrant]_vars

\* Graphs wide enough for two deliveries to derived handlers, each with
\* subscribers, to wait on the pure queue together; a listener effect may
\* call the emitter.
SubscribeWide(K) ==
    /\ nEmits = 0 /\ ~disposed
    /\ Len(subs) < MaxWideSubs
    /\ \E k \in K, up \in 0..Len(subs) :
          /\ up > 0 => subs[up].kind \in TransformKinds
          /\ subs' = Append(subs, [up |-> up, kind |-> k, alive |-> TRUE])
    /\ UNCHANGED <<pureQueue, mutationListenerQueue, listenerQueue,
                   runningPureQueue, runningMutationListenerQueue,
                   runningListenerQueue, scheduled, microtasks, promises,
                   log, nEmits, nEffects, disposed, topicTree>>

WideKinds == {"map", "lis", "lisEmit", "mut"}

NextWide ==
    \/ SubscribeWide(WideKinds)
    \/ Emit({1})
    \/ RunMicrotask

SpecWide == Init /\ [][NextWide]_vars

\* Graphs with async transforms; the user tasks emit one payload.
AsyncKinds == {"map", "async", "lis", "mut"}

NextAsync ==
    \/ Subscribe(AsyncKinds)
    \/ Emit({1})
    \/ Settle
    \/ RunMicrotask

SpecAsync == Init /\ [][NextAsync]_vars

\* Graphs of async transforms and listeners, run by a host that keeps
\* running the microtasks it holds (a microtask queue is drained before the
\* host takes the next task).
AsyncListenerKinds == {"async", "lis", "mut"}

SubscribeLive(K) ==
    /\ nEmits = 0 /\ ~disposed
    /\ Len(subs) < MaxLiveSubs
    /\ \E k \in K, up \in 0..Len(subs) :
          /\ up > 0 => subs[up].kind \in TransformKinds
          /\ subs' = Append(subs, [up |-> up, kind |-> k, alive |-> TRUE])
    /\ UNCHANGED <<pureQueue, mutationListenerQueue, listenerQueue,
                   runningPureQueue, runningMutationListenerQueue,
                   runningListenerQueue, scheduled, microtasks, promises,
                   log, nEmits, nEffects, disposed, topicTree>>

NextAsyncListener ==
    \/ SubscribeLive(AsyncListenerKinds)
    \/ Emit({1})
    \/ Settle
    \/ RunMicrotask

SpecAsyncListener ==
    Init /\ [][NextAsyncListener]_vars /\ WF_vars(RunMicrotask)

\* Graphs with async transforms, listeners and mutation listeners, one of
\* which throws on an odd payload.
StrandedKinds == {"async", "lis", "mut", "mutThrow"}

NextStranded ==
    \/ Subscribe(StrandedKinds)
    \/ Emit({1})
    \/ Settle
    \/ RunMicrotask

SpecStranded == Init /\ [][NextStranded]_vars

\* Graphs in a scope that a user task may dispose at any time.
DisposeKinds == {"map", "async", "lis"}

NextDispose ==
    \/ Subscribe(DisposeKinds)
    \/ Emit({1})
    \/ Dispose
    \/ Settle
    \/ RunMicrotask

SpecDispose == Init /\ [][NextDispose]_vars

\* The user task that called the emitter calls it again before it ends:
\* the microtask a listener scheduled during the earlier call is still
\* waiting.
EmitInTask(P) ==
    /\ nEmits > 0
    /\ nEmits < MaxEmits
    /\ microtasks # <<>>
    /\ \E v \in P : EndJob(emit(v, St))

\* Graphs of synchronous transforms, emitted to by a task more than once
\* or by later tasks.
NextSyncTask ==
    \/ Subscribe(SyncKinds)
    \/ Emit(Payloads)
    \/ EmitInTask(Payloads)
    \/ RunMicrotask

SpecSyncTask == Init /\ [][NextSyncTask]_vars

\* Graphs with a synchronous transform that throws an error other than a
\* HaltError on odd payloads.
ThrowKinds == {"map", "throw", "lis"}

NextThrow ==
    \/ Subscribe(ThrowKinds)
    \/ Emit(Payloads)
    \/ RunMicrotask

SpecThrow == Init /\ [][NextThrow]_vars

\* Graphs with async transforms whose promises may resolve, or reject with
\* an error that is not a HaltError.
RejectKinds == {"map", "async", "lis"}

NextReject ==
    \/ Subscribe(RejectKinds)
    \/ Emit({1})
    \/ Settle
    \/ Reject
    \/ RunMicrotask

SpecReject == Init /\ [][NextReject]_vars

\* Graphs whose transforms and effects throw an error other than a
\* HaltError on odd payloads.
StuckKinds == {"map", "throw", "lisThrow", "mutThrow"}

NextStuck ==
    \/ Subscribe(StuckKinds)
    \/ Emit(Payloads)
    \/ RunMicrotask

SpecStuck == Init /\ [][NextStuck]_vars

\* A single path of handlers: every subscription is made on the handler
\* the latest transform derived (on the event's handler when there is
\* none), so listeners sit at the stages of one chain of transforms.
Tip ==
    LET ts == {i \in 1..Len(subs) : subs[i].kind \in TransformKinds}
    IN IF ts = {} THEN 0 ELSE CHOOSE i \in ts : \A j \in ts : j <= i

SubscribeOnPath(K) ==
    /\ nEmits = 0 /\ ~disposed
    /\ Len(subs) < MaxPath
    /\ \E k \in K :
          subs' = Append(subs, [up |-> Tip, kind |-> k, alive |-> TRUE])
    /\ UNCHANGED <<pureQueue, mutationListenerQueue, listenerQueue,
                   runningPureQueue, runningMutationListenerQueue,
                   runningListenerQueue, scheduled, microtasks, promises,
                   log, nEmits, nEffects, disposed, topicTree>>

PathKinds == {"map", "async", "asyncNow", "lis"}

NextPath ==
    \/ SubscribeOnPath(PathKinds)
    \/ Emit({1})
    \/ Settle
    \/ RunMicrotask

SpecPath == Init /\ [][NextPath]_vars

\* Emits with different payloads through timer-resolved async transforms:
\* the timers may fire in any order.
RaceKinds == {"map", "async"}

NextRace ==
    \/ Subscribe(RaceKinds)
    \/ Emit(Payloads)
    \/ Settle
    \/ RunMicrotask

SpecRace == Init /\ [][NextRace]_vars

\* Sync listeners on handlers derived from async transforms.
SyncListenerKinds == {"async", "syncLis"}

NextSyncListener ==
    \/ Subscribe(SyncListenerKinds)
    \/ Emit({1})
    \/ Settle
    \/ RunMicrotask

SpecSyncListener == Init /\ [][NextSyncListener]_vars

\* Sync listeners below transforms that halt, synchronously (the "halt"
\* kind on an odd payload) or by rejecting their promise.
SyncListenerHaltKinds == {"halt", "async", "syncLis"}

NextSyncListenerHalt ==
    \/ Subscribe(SyncListenerHaltKinds)
    \/ Emit(Payloads)
    \/ Settle
    \/ RunMicrotask

SpecSyncListenerHalt == Init /\ [][NextSyncListenerHalt]_vars

\* part_002:347-354, createPartition(handler, predicate) on the event's
\* handler: two subscriptions made in one call.
PartitionSubs ==
    {i \in 1..Len(subs) : subs[i].kind \in {"partTrue", "partFalse"}}

CreatePartition ==
    /\ nEmits = 0 /\ ~disposed
    /\ PartitionSubs = {}
    /\ subs' = subs \o <<[up |-> 0, kind |-> "partTrue", alive |-> TRUE],
                          [up |-> 0, kind |-> "partFalse", alive |-> TRUE]>>
    /\ UNCHANGED <<pureQueue, mutationListenerQueue, listenerQueue,
                   runningPureQueue, runningMutationListenerQueue,
                   runningListenerQueue, scheduled, microtasks, promises,
                   log, nEmits, nEffects, disposed, topicTree>>

\* A subscription on the event's handler or on one of the two handlers
\* createPartition returned.
SubscribeBranch(K) ==
    /\ nEmits = 0 /\ ~disposed
    /\ Len(subs) - Cardinality(PartitionSubs) < MaxBranchSubs
    /\ \E k \in K, up \in {0} \cup PartitionSubs :
          subs' = Append(subs, [up |-> up, kind |-> k, alive |-> TRUE])
    /\ UNCHANGED <<pureQueue, mutationListenerQueue, listenerQueue,
                   runningPureQueue, runningMutationListenerQueue,
                   runningListenerQueue, scheduled, microtasks, promises,
                   log, nEmits, nEffects, disposed, topicTree>>

BranchKinds == {"map", "lis"}
PartitionPayloads == {1, 2, 3}

NextPartition ==
    \/ CreatePartition
    \/ SubscribeBranch(BranchKinds)
    \/ Emit(PartitionPayloads)
    \/ RunMicrotask

SpecPartition == Init /\ [][NextPartition]_vars

\* part_002:506-524, on(...key, transform): the nodes along the key path
\* are created where missing, the addressed node gets an event if it has
\* none, and the transform is subscribed to that event's handler.
TopicPaths == {<<>>, <<"a">>, <<"b">>, <<"a", "b">>}

onTopic(K) ==
    /\ log = <<>> /\ ~disposed
    /\ Len(subs) < MaxTopicSubs
    /\ \E k \in K, key \in TopicPaths :
          /\ topicTree' = withEvent(key, withNodes(key, topicTree))
          /\ subs' = Append(subs, [up |-> CurrentEvent(key, topicTree'),
                                   kind |-> k, alive |-> TRUE])
    /\ UNCHANGED <<pureQueue, mutationListenerQueue, listenerQueue,
                   runningPureQueue, runningMutationListenerQueue,
                   runningListenerQueue, scheduled, microtasks, promises,
                   log, nEmits, nEffects, disposed>>

\* The payloads given to the topic emitter: a primitive, and objects with
\* no key, one key, two keys, and a nested object.
TopicPayloads ==
    {Val(1), Obj(<<>>), Obj("a" :> Val(1)), Obj("b" :> Val(2)),
     Obj("a" :> Val(1) @@ "b" :> Val(2)), Obj("a" :> Obj("b" :> Val(1)))}

TopicEmits == {i \in 1..Len(log) : log[i].ev = "emitTopic"}

\* A user task calls the topic emitter with a key path and a payload.
EmitTopic ==
    /\ microtasks = <<>>
    /\ Cardinality(TopicEmits) < MaxTopicEmits
    /\ \E key \in TopicPaths, payload \in TopicPayloads :
          LET returns(s) ==
                 IF Raised(s) THEN s
                 ELSE Logged("retTopic", 0, payload, 0, NodeStream(key), s)
          IN EndJob(returns(emitTopic(key, payload,
                 Logged("emitTopic", 0, payload, 0, NodeStream(key), St))))

TopicKinds == {"cb"}

\* The subscribers are callbacks given to onTopic: they queue no effect, so
\* no flush is scheduled and the run has no microtask.
NextTopic ==
    \/ onTopic(TopicKinds)
    \/ EmitTopic

SpecTopic == Init /\ [][NextTopic]_vars

\* The payloads emitted under the key a, as emitTopic('a', v) or as
\* emitTopic({a: v}): primitives, the empty object, an object whose leaf
\* lies at a.b, and one with a leaf at a.a, which no subscription made.
PayloadsUnderA ==
    {Val(1), Val(2), Obj(<<>>), Obj("b" :> Val(1)),
     Obj("a" :> Val(1) @@ "b" :> Val(2))}

\* A user task calls the topic emitter for the key a, in either form.
EmitTopicUnderA ==
    /\ microtasks = <<>>
    /\ Cardinality(TopicEmits) < MaxTopicEmits
    /\ \E v \in PayloadsUnderA :
       \E call \in {[key |-> <<"a">>, payload |-> v],
                    [key |-> <<>>, payload |-> Obj("a" :> v)]} :
          LET returns(s) ==
                 IF Raised(s) THEN s
                 ELSE Logged("retTopic", 0, call.payload, 0,
                             NodeStream(call.key), s)
          IN EndJob(returns(emitTopic(call.key, call.payload,
                 Logged("emitTopic", 0, call.payload, 0,
                        NodeStream(call.key), St))))

NextTopicUnderA ==
    \/ onTopic(TopicKinds)
    \/ EmitTopicUnderA

SpecTopicUnderA == Init /\ [][NextTopicUnderA]_vars

\* The closure of a partial application that forgets the argument popped.
onDropsBound(args, t) ==
    LET popped == args[Len(args)]
        key == SubSeq(args, 1, Len(args) - 1)
    IN IF popped \notin TopicKinds
       THEN [t EXCEPT !.bound = key]
       ELSE LET tree == withEvent(key, withNodes(key, t.tree))
            IN [tree |-> tree,
                subs |-> Append(t.subs, [up |-> CurrentEvent(key, tree),
                                         kind |-> popped, alive |-> TRUE]),
                bound |-> <<>>]

\* part_002:506-524, on(...args): the last argument is popped; when it is
\* not a function the call returns (...more) => on(...key, transform,
\* ...more), a closure holding the arguments given so far (bound);
\* otherwise the nodes along the key path are created where missing, the
\* addressed node gets an event if it has none, and the transform is
\* subscribed to that event's handler. Arguments are key strings and, for a
\* function, the kind of the subscriber.
on(args, t) ==
    LET popped == args[Len(args)]
        key == SubSeq(args, 1, Len(args) - 1)
    IN IF popped \notin TopicKinds
       THEN [t EXCEPT !.bound = Append(key, popped)]
       ELSE LET tree == withEvent(key, withNodes(key, t.tree))
            IN [tree |-> tree,
                subs |-> Append(t.subs, [up |-> CurrentEvent(key, tree),
                                         kind |-> popped, alive |-> TRUE]),
                bound |-> <<>>]

\* onTopic(chunk1)(chunk2)...: each call is made on what the previous one
\* returned, the first on the topic's own on.
RECURSIVE callOn(_, _)
callOn(chunks, t) ==
    IF chunks = <<>> THEN t
    ELSE callOn(Tail(chunks), on(t.bound \o Head(chunks), t))

\* The ways to give the arguments args over one or more calls: args cut
\* after the positions of C.
RECURSIVE Cut(_, _, _)
Cut(args, C, from) ==
    LET later == {c \in C : c >= from}
    IN IF later = {} THEN <<SubSeq(args, from, Len(args))>>
       ELSE LET c == CHOOSE x \in later : \A y \in later : x <= y
            IN <<SubSeq(args, from, c)>> \o Cut(args, C, c + 1)
Chunkings(args) == {Cut(args, C, 1) : C \in SUBSET (1..(Len(args) - 1))}

PartialSubs == {i \in 1..Len(log) : log[i].ev = "on"}

\* The scope's builder subscribes through the topic, giving the key path
\* and the subscriber in one call or over several. The history records the
\* node asked for (em, its code) and the number of calls made (id).
onTopicPartial(K) ==
    /\ TopicEmits = {} /\ ~disposed
    /\ Cardinality(PartialSubs) < MaxPartialSubs
    /\ \E k \in K, key \in TopicPaths :
       \E chunks \in Chunkings(Append(key, k)) :
          LET t == callOn(chunks, [tree |-> topicTree, subs |-> subs,
                                   bound |-> <<>>])
          IN /\ topicTree' = t.tree
             /\ subs' = t.subs
             /\ log' = Append(log, Entry("on", Len(t.subs), Undefined,
                                         Code(key), Len(chunks), St))
    /\ UNCHANGED <<pureQueue, mutationListenerQueue, listenerQueue,
                   runningPureQueue, runningMutationListenerQueue,
                   runningListenerQueue, scheduled, microtasks, promises,
                   nEmits, nEffects, disposed>>

NextTopicPartial ==
    \/ onTopicPartial(TopicKinds)
    \/ EmitTopicUnderA

SpecTopicPartial == Init /\ [][NextTopicPartial]_vars

\* A subscription is made through the topic at any time, before or after
\* calls of its emitter. The history records the subscription made (sub)
\* and the node asked for (em, its code).
onTopicAnyTime(K) ==
    /\ ~disposed
    /\ Len(subs) < MaxGrowSubs
    /\ \E k \in K, key \in TopicPaths :
          /\ topicTree' = withEvent(key, withNodes(key, topicTree))
          /\ subs' = Append(subs, [up |-> CurrentEvent(key, topicTree'),
                                   kind |-> k, alive |-> TRUE])
          /\ log' = Append(log, Entry("on", Len(subs) + 1, Undefined,
                                      Code(key), 1, St))
    /\ UNCHANGED <<pureQueue, mutationListenerQueue, listenerQueue,
                   runningPureQueue, runningMutationListenerQueue,
                   runningListenerQueue, scheduled, microtasks, promises,
                   nEmits, nEffects, disposed>>

\* A user task calls the topic emitter with a key path and a primitive.
EmitTopicPrimitive ==
    /\ microtasks = <<>>
    /\ Cardinality(TopicEmits) < MaxGrowEmits
    /\ \E key \in TopicPaths :
          LET returns(s) ==
                 IF Raised(s) THEN s
                 ELSE Logged("retTopic", 0, Val(1), 0, NodeStream(key), s)
          IN EndJob(returns(emitTopic(key, Val(1),
                 Logged("emitTopic", 0, Val(1), 0, NodeStream(key), St))))

\* A topic subscribed to and emitted to in any order.
NextTopicGrow ==
    \/ onTopicAnyTime(TopicKinds)
    \/ EmitTopicPrimitive

SpecTopicGrow == Init /\ [][NextTopicGrow]_vars

----------------------------------------------------------------------------
\* Reading the history.

LogIdx == 1..Len(log)
\* Calls made while the pure queue propagates: user transforms and the
\* transforms of the listeners, which enqueue the effects.
PureEvents == {"tr", "enqL", "enqM"}
EffectEvents == {"mut", "lis"}
Callbacks == PureEvents \cup EffectEvents
SubIdx == 1..Len(subs)

\* The subscriptions upstream of subscription j, nearest first.
RECURSIVE Path(_)
Path(j) == IF subs[j].up = 0 THEN {} ELSE {subs[j].up} \cup Path(subs[j].up)
\* Subscriptions to the handler subscription i derived, and to every
\* handler derived from it.
Downstream(i) == {j \in SubIdx : i \in Path(j)}
Children(u) == {j \in SubIdx : subs[j].up = u}
\* Stream u is a proper ancestor of stream w.
StreamAbove(u, w) == w # 0 /\ (u = 0 \/ u \in Path(w))

\* Subscription j was called for emit call em.
Called(j, em) ==
    \E i \in LogIdx : log[i].sub = j /\ log[i].em = em /\ log[i].ev \in PureEvents
\* Effect id has run before position i of the history.
RanBefore(id, i) ==
    \E k \in 1..(i - 1) : log[k].ev \in EffectEvents /\ log[k].id = id

----------------------------------------------------------------------------
\* C1: for an emit on a graph of synchronous transforms none of which
\* calls an emitter, every transform the emission reaches is called (and the
\* pure queue is empty and idle) before any mutation effect runs, and every
\* mutation effect of the emission has run (and the mutation queue is idle)
\* before any listener effect runs, whatever the registration order.
C1_PureThenMutationThenListener ==
    /\ \A i \in LogIdx : log[i].ev \in EffectEvents =>
          /\ ~log[i].rp /\ log[i].pq = 0
          /\ \A j \in LogIdx :
                (log[j].em = log[i].em /\ log[j].ev \in PureEvents) => j < i
          /\ \A c \in Children(0) : Called(c, log[i].em)
          /\ \A j \in LogIdx, c \in SubIdx :
                (/\ log[j].em = log[i].em /\ log[j].ev = "tr"
                 /\ subs[c].up = log[j].sub
                 /\ ~(subs[log[j].sub].kind = "halt" /\ log[j].val.v % 2 = 1))
                => Called(c, log[i].em)
    /\ \A i \in LogIdx : log[i].ev = "lis" =>
          /\ ~log[i].rm
          /\ \A j \in LogIdx :
                (log[j].em = log[i].em /\ log[j].ev = "mut") => j < i
          /\ \A j \in LogIdx :
                (log[j].em = log[i].em /\ log[j].ev = "enqM")
                => RanBefore(log[j].id, i)

\* A listener registered first, a mutation listener second and a
\* transform last have all run for one emission.
C1_Witness ==
    \E i, j, k \in LogIdx :
       /\ log[i].ev = "tr" /\ log[j].ev = "mut" /\ log[k].ev = "lis"
       /\ log[i].em = log[j].em /\ log[j].em = log[k].em
       /\ log[k].sub < log[j].sub /\ log[j].sub < log[i].sub

\* C5: when a transform throws a HaltError synchronously, emit returns
\* normally, nothing downstream of the halted transform is called for that
\* emission, every other subscriber of the same handler is still called,
\* and an emission on which the transform does not halt reaches the
\* subscribers of the derived handler.
Halts(i) ==
    /\ log[i].ev = "tr" /\ subs[log[i].sub].kind = "halt"
    /\ log[i].val.v % 2 = 1
Passes(i) ==
    /\ log[i].ev = "tr" /\ subs[log[i].sub].kind = "halt"
    /\ log[i].val.v % 2 = 0

C5_HaltPrunesOnlyItsEdge ==
    /\ \A i \in LogIdx : log[i].ev # "uncaught"
    /\ \A i \in LogIdx : log[i].ev = "emit" =>
          \E j \in LogIdx : j > i /\ log[j].ev = "ret" /\ log[j].em = log[i].em
    /\ \A i \in LogIdx : Halts(i) =>
          /\ \A j \in LogIdx :
                (log[j].em = log[i].em /\ log[j].ev \in Callbacks)
                => log[j].sub \notin Downstream(log[i].sub)
          /\ \A c \in Children(subs[log[i].sub].up) : Called(c, log[i].em)
    /\ \A i \in LogIdx : Passes(i) =>
          \A c \in Children(log[i].sub) : Called(c, log[i].em)

\* A transform with a later sibling and a subscriber downstream halted on
\* one emission and passed another.
C5_Witness ==
    \E i, j \in LogIdx :
       /\ Halts(i) /\ Passes(j) /\ log[i].sub = log[j].sub
       /\ log[i].em < log[j].em
       /\ Children(log[i].sub) # {}
       /\ \E c \in Children(subs[log[i].sub].up) : c > log[i].sub

\* C10: for one emit through synchronous handlers, the listener effects
\* run in propagation order: an effect on a handler runs before the
\* effects on every handler derived from it, and the effects on one
\* handler run in subscription order.
C10_ListenersInPropagationOrder ==
    \A i, j \in LogIdx :
       (/\ log[i].ev = "lis" /\ log[j].ev = "lis" /\ log[i].em = log[j].em
        /\ \/ StreamAbove(subs[log[i].sub].up, subs[log[j].sub].up)
           \/ /\ subs[log[i].sub].up = subs[log[j].sub].up
              /\ log[i].sub < log[j].sub)
       => i < j

\* A listener registered on the event's handler after a listener on a
\* derived handler ran before it.
C10_Witness ==
    \E i, j \in LogIdx :
       /\ log[i].ev = "lis" /\ log[j].ev = "lis" /\ log[i].em = log[j].em
       /\ subs[log[i].sub].up = 0 /\ subs[log[j].sub].up # 0
       /\ log[i].sub > log[j].sub
       /\ i < j

\* C2: every effect pushed onto the mutation queue or the listener queue
\* is executed or still waiting in its queue: none is discarded
\* unexecuted, also when it is pushed while its queue is being drained.
Queued(id) ==
    \/ \E k \in 1..Len(listenerQueue) : listenerQueue[k].id = id
    \/ \E k \in 1..Len(mutationListenerQueue) : mutationListenerQueue[k].id = id

C2_NoEffectDiscarded ==
    \A i \in LogIdx : log[i].ev \in {"enqL", "enqM"} =>
       \/ \E k \in LogIdx : log[k].ev \in EffectEvents /\ log[k].id = log[i].id
       \/ Queued(log[i].id)

\* C3: when a pure transform calls an emitter during the pure drain, the
\* subscribers of the reentrant emission are called in the same pass, and
\* no mutation or listener effect runs while the pure queue is being
\* drained or is not empty.
C3_NoEffectBeforePureQueueEmpty ==
    /\ \A i \in LogIdx : (log[i].ev = "emit" /\ log[i].rp) =>
          \A c \in Children(0) : Called(c, log[i].em)
    /\ \A i \in LogIdx : log[i].ev \in EffectEvents =>
          ~log[i].rp /\ log[i].pq = 0

\* C4: whenever a listener effect starts, no mutation-queue drain is in
\* progress and every mutation effect enqueued before that moment has run,
\* for any nesting of emits.
C4_ListenerAfterAllMutations ==
    \A i \in LogIdx : log[i].ev = "lis" =>
       /\ ~log[i].rm
       /\ \A j \in 1..(i - 1) : log[j].ev = "enqM" => RanBefore(log[j].id, i)

\* C6: an emit called after the scope was disposed calls none of the
\* transforms, subscriber callbacks or effects registered in the scope:
\* nothing is called for that emission, and nothing at all is called
\* between the call of emit and its return.
C6_NoDeliveryAfterDispose ==
    \A i \in LogIdx : (log[i].ev = "emit" /\ log[i].dis) =>
       /\ \A j \in LogIdx : log[j].ev \in Callbacks => log[j].em # log[i].em
       /\ i < Len(log) /\ log[i + 1].ev = "ret" /\ log[i + 1].em = log[i].em

\* An emission before the disposal was delivered, one after it was made.
C6_Witness ==
    \E i, j \in LogIdx :
       /\ log[i].ev \in Callbacks /\ ~log[i].dis
       /\ log[j].ev = "ret" /\ log[j].dis /\ log[j].em > log[i].em

\* C7: once the scope is disposed, the resolution of a promise that was
\* pending at the disposal calls no transform, subscriber callback or
\* effect registered in the scope.
C7_NothingCalledAfterDispose ==
    \A i \in LogIdx : log[i].ev \in Callbacks => ~log[i].dis

\* C8: when a transform returns a promise, each transform subscribed to the
\* derived handler is called at most once for that emission, with the
\* resolved value and after the resolution, exactly once when the promise
\* has resolved and the microtasks have run; no transform is ever called
\* with a promise.
CallsOf(c, em) ==
    {i \in LogIdx : log[i].ev \in PureEvents /\ log[i].sub = c /\ log[i].em = em}

C8_FlattenedOnceAfterResolve ==
    /\ \A i \in LogIdx : log[i].ev \in Callbacks => log[i].val.t # "prom"
    /\ \A p \in UserPromises : \A c \in Children(promises[p].sub) :
          LET calls == CallsOf(c, promises[p].em)
          IN /\ Cardinality(calls) <= 1
             /\ \A i \in calls :
                   /\ log[i].val = promises[p].res
                   /\ promises[p].out = promises[p].res
                   /\ \E k \in 1..(i - 1) :
                         log[k].ev = "resolve" /\ log[k].id = p
             /\ (promises[p].out = promises[p].res /\ microtasks = <<>>)
                => Cardinality(calls) = 1

\* A promise resolved and a transform subscribed to the derived handler
\* was called with its value.
C8_Witness ==
    \E p \in UserPromises : \E c \in Children(promises[p].sub) :
       /\ subs[c].kind = "map"
       /\ \E i \in CallsOf(c, promises[p].em) : log[i].val = promises[p].res

\* C9: when the promise of an async transform rejects with a HaltError, no
\* transform or effect at any depth downstream is called or enqueued for
\* that emission, and every promise derived downstream settles to the
\* HaltError as a resolved value.
HaltedPromises == {p \in UserPromises : promises[p].out = Thrown(0)}
DerivedBelow(p) ==
    {d \in 1..Len(promises) :
        /\ ~promises[d].user /\ promises[d].em = promises[p].em
        /\ promises[d].sub \in Downstream(promises[p].sub)}

C9_AsyncHaltPassesThrough ==
    \A p \in HaltedPromises :
       /\ \A i \in LogIdx :
             (log[i].em = promises[p].em /\ log[i].ev \in Callbacks)
             => log[i].sub \notin Downstream(promises[p].sub)
       /\ \A d \in DerivedBelow(p) :
             /\ promises[d].out \in {Pending, HaltError}
             /\ microtasks = <<>> => promises[d].out = HaltError

\* An async transform halted above a transform with a listener or a
\* mutation listener downstream, and the HaltError reached the last stage.
C9_Witness ==
    \E p \in HaltedPromises : \E d \in DerivedBelow(p) :
       /\ promises[d].out = HaltError
       /\ subs[promises[d].sub].kind \in {"lis", "mut"}
       /\ subs[promises[d].sub].up # promises[p].sub

\* C11: on a graph of synchronous transforms none of which halts, every
\* mutation listener and every listener of the graph runs exactly once for
\* each emission, the mutation effects first and the listener effects
\* after them, each group in propagation order: by the depth of the
\* handler subscribed to, then by the order in which the handlers of that
\* depth were reached, then by subscription order on one handler.
NoHalts == \A c \in SubIdx : subs[c].kind # "halt"
Depth(j) == Cardinality(Path(j))
RECURSIVE CalledBefore(_, _)
CalledBefore(a, b) ==
    IF Depth(a) # Depth(b) THEN Depth(a) < Depth(b)
    ELSE IF subs[a].up = subs[b].up THEN a < b
    ELSE CalledBefore(subs[a].up, subs[b].up)
EffectsOf(c, em) ==
    {i \in LogIdx : log[i].ev \in EffectEvents /\ log[i].sub = c /\ log[i].em = em}
Returned == {log[i].em : i \in {k \in LogIdx : log[k].ev = "ret"}}

EmitVal(em) ==
    LET i == CHOOSE k \in LogIdx : log[k].ev = "emit" /\ log[k].em = em
    IN log[i].val.v
Halted(em) == \E i \in LogIdx : log[i].ev = "halt" /\ log[i].em = em
Settled(em) ==
    /\ microtasks = <<>>
    /\ \A p \in UserPromises :
          promises[p].em = em => promises[p].out # Pending

C12_PathOrderKeptByPromiseChain ==
    /\ \A i, j \in LogIdx :
          (/\ log[i].ev = "lis" /\ log[j].ev = "lis" /\ log[i].em = log[j].em
           /\ Depth(log[i].sub) < Depth(log[j].sub))
          => i < j
    /\ \A i \in LogIdx : log[i].ev = "lis" =>
          log[i].val = Val(EmitVal(log[i].em) + Depth(log[i].sub))
    /\ \A em \in Returned : \A c \in SubIdx : subs[c].kind = "lis" =>
          /\ Cardinality(EffectsOf(c, em)) <= 1
          /\ (Settled(em) /\ ~Halted(em)) => Cardinality(EffectsOf(c, em)) = 1

\* Listeners below one and below two async transforms both ran for one
\* emission, one transform resolving later and one at once.
C12_Witness ==
    \E i, j \in LogIdx :
       /\ log[i].ev = "lis" /\ log[j].ev = "lis" /\ log[i].em = log[j].em
       /\ Depth(log[i].sub) = 1 /\ Depth(log[j].sub) = 2
       /\ {subs[a].kind : a \in Path(log[j].sub)} = {"async", "asyncNow"}

\* C13: on a graph of synchronous transforms, everything an emit call
\* causes happens between that call and its return: every transform call,
\* every enqueue and every effect of the emission, and each effect it
\* enqueued has run when it returns; so all of the first emit's calls
\* precede all of the second emit's.
C13_EmitsProcessedInCallOrder ==
    /\ \A i \in LogIdx : log[i].ev \in Callbacks =>
          \E a \in 1..(i - 1), b \in (i + 1)..Len(log) :
             /\ log[a].ev = "emit" /\ log[a].em = log[i].em
             /\ log[b].ev = "ret" /\ log[b].em = log[i].em
             /\ \A k \in a..b : log[k].em = log[i].em
    /\ \A i \in LogIdx : log[i].ev \in {"enqL", "enqM"} =>
          \E k \in LogIdx : log[k].ev \in EffectEvents /\ log[k].id = log[i].id
    /\ \A i, j \in LogIdx :
          (/\ log[i].ev \in Callbacks /\ log[j].ev \in Callbacks
           /\ log[i].em < log[j].em)
          => i < j

\* Two emits each called a transform, a mutation effect and a listener
\* effect.
C13_Witness ==
    \A em \in {1, 2} : \A ev \in {"tr", "mut", "lis"} :
       \E i \in LogIdx : log[i].ev = ev /\ log[i].em = em

\* C14: the subscribers of a handler derived from an async transform see
\* the emissions in the order in which their promises resolve, not in the
\* order of the emit calls: each is called once its emission's promise has
\* resolved and the microtasks have run, and of two emissions the one
\* whose promise resolved first is observed first.
ResolvedAt(p) ==
    {i \in LogIdx : log[i].ev = "resolve" /\ log[i].id = p}

C14_ObservedInResolutionOrder ==
    \A p, q \in UserPromises :
       \A c \in Children(promises[p].sub) :
          /\ (ResolvedAt(p) # {} /\ microtasks = <<>>)
             => CallsOf(c, promises[p].em) # {}
          /\ (p # q /\ promises[p].sub = promises[q].sub) =>
                \A i \in CallsOf(c, promises[p].em),
                   j \in CallsOf(c, promises[q].em),
                   a \in ResolvedAt(p), b \in ResolvedAt(q) :
                   (a < b) <=> (i < j)

\* Emit A was called before emit B with another payload, and a subscriber
\* below the async transform was called with B's result before A's.
C14_Witness ==
    \E p, q \in UserPromises :
       /\ promises[p].sub = promises[q].sub
       /\ promises[p].em < promises[q].em
       /\ promises[p].res # promises[q].res
       /\ \E c \in Children(promises[p].sub) :
             \E i \in CallsOf(c, promises[p].em),
                j \in CallsOf(c, promises[q].em) :
                /\ j < i
                /\ log[i].val = promises[p].res
                /\ log[j].val = promises[q].res

\* C15: the effect of a createSyncListener on a handler derived from an
\* async transform is pushed on the listener queue during the pure
\* propagation of the emit and runs before that emit returns and before
\* any promise of the emission settles, once per emission; the promise it
\* is given stays pending until the transform's promise resolves and then
\* resolves to the value the transform produced.
SyncEnqueues ==
    {i \in LogIdx : /\ log[i].ev = "enqL"
                    /\ subs[log[i].sub].kind = "syncLis"
                    /\ subs[log[i].sub].up # 0
                    /\ subs[subs[log[i].sub].up].kind = "async"}
RetOf(em) == CHOOSE k \in LogIdx : log[k].ev = "ret" /\ log[k].em = em
PromisesOf(a, em) ==
    {p \in UserPromises : promises[p].sub = a /\ promises[p].em = em}

C15_SyncListenerRunsInEmitFlush ==
    /\ \A i \in SyncEnqueues :
          LET em == log[i].em
              f == log[i].val.v
          IN /\ log[i].rp /\ i < RetOf(em)
             /\ \E k \in (i + 1)..(RetOf(em) - 1) :
                   /\ log[k].ev = "lis" /\ log[k].id = log[i].id
                   /\ log[k].val = Prom(f)
                   /\ \A r \in LogIdx :
                         (log[r].ev \in {"resolve", "halt"} /\ log[r].em = em)
                         => k < r
             /\ \A p \in PromisesOf(subs[log[i].sub].up, em) :
                   /\ promises[p].out = Pending => promises[f].out = Pending
                   /\ promises[p].out = promises[p].res =>
                         /\ promises[f].out \in {Pending, promises[p].res}
                         /\ microtasks = <<>> =>
                               promises[f].out = promises[p].res
    /\ \A c \in SubIdx, em \in Returned :
          (/\ subs[c].kind = "syncLis" /\ subs[c].up # 0
           /\ subs[subs[c].up].kind = "async")
          => /\ Cardinality(EffectsOf(c, em)) <= 1
             /\ Called(subs[c].up, em) => Cardinality(EffectsOf(c, em)) = 1

\* A sync listener's effect ran during the emit and the promise it was
\* given has resolved to the async transform's result.
C15_Witness ==
    \E i \in SyncEnqueues :
       \E p \in PromisesOf(subs[log[i].sub].up, log[i].em) :
          /\ EffectsOf(log[i].sub, log[i].em) # {}
          /\ promises[p].out = promises[p].res
          /\ promises[log[i].val.v].out = promises[p].res

\* C16: the promise given to a createSyncListener effect never settles to
\* a HaltError: it is never resolved to one and never rejected with one;
\* when the async transform upstream halts the effect has still run and
\* its promise resolves to undefined; when the transform upstream halts
\* synchronously the effect is not run for that emission.
SyncListenerEnqueues ==
    {i \in LogIdx : log[i].ev = "enqL" /\ subs[log[i].sub].kind = "syncLis"}

C16_SyncListenerPromiseFiltersHalt ==
    /\ \A i \in SyncListenerEnqueues :
          LET f == log[i].val.v
              a == subs[log[i].sub].up
          IN /\ promises[f].out \notin {HaltError, Thrown(0)}
             /\ \A p \in PromisesOf(a, log[i].em) :
                   (promises[p].out = Thrown(0) /\ microtasks = <<>>)
                   => /\ EffectsOf(log[i].sub, log[i].em) # {}
                      /\ promises[f].out = Undefined
    /\ \A h \in LogIdx : Halts(h) =>
          \A c \in Children(log[h].sub) :
             subs[c].kind = "syncLis" => EffectsOf(c, log[h].em) = {}

\* C17: with the handlers of createPartition(h, pred), while pred has not
\* thrown: an emission on which pred is truthy reaches every subscriber of
\* the first handler once, with the payload unchanged, and no subscriber
\* of the second; an emission on which pred is falsy reaches every
\* subscriber of the second once, unchanged, and none of the first; an
\* emission on which pred throws reaches no subscriber of either.
BranchOf(kind) ==
    UNION {Children(i) : i \in {j \in SubIdx : subs[j].kind = kind}}
NoThrowBefore(i) == \A k \in 1..i : log[k].ev # "uncaught"
DeliveredOnce(c, i) ==
    /\ Cardinality(CallsOf(c, log[i].em)) = 1
    /\ \A k \in CallsOf(c, log[i].em) : log[k].val = log[i].val

C17_PartitionDeliversToExactlyOne ==
    \A i \in LogIdx : (log[i].ev = "emit" /\ NoThrowBefore(i)) =>
       LET b == predicate(log[i].val.v)
       IN /\ \A c \in BranchOf("partTrue") :
                IF b = "true" THEN DeliveredOnce(c, i)
                ELSE CallsOf(c, log[i].em) = {}
          /\ \A c \in BranchOf("partFalse") :
                IF b = "false" THEN DeliveredOnce(c, i)
                ELSE CallsOf(c, log[i].em) = {}

\* Both handlers have a subscriber; one emission went to the first, one to
\* the second.
C17_Witness ==
    \E c \in BranchOf("partTrue"), d \in BranchOf("partFalse") :
       \E i, j \in LogIdx :
          /\ log[i].ev \in PureEvents /\ log[i].sub = c /\ log[i].val = Val(1)
          /\ log[j].ev \in PureEvents /\ log[j].sub = d /\ log[j].val = Val(2)

\* C18: a call emitTopic(k1..kn, p) with a primitive p, every node of the
\* path existing, calls the emitter of each prefix node that has an event
\* exactly once, root first, with p wrapped in nested objects keyed by the
\* rest of the path (p itself at the addressed node), and calls no other
\* emitter; so each subscriber at a prefix node is called once with that
\* value and the subscribers at other nodes are not called.
KeyOf(i) == CHOOSE key \in TopicPaths : NodeStream(key) = log[i].id
Prefix(key, j) == SubSeq(key, 1, j)
Suffix(key, j) == SubSeq(key, j + 1, Len(key))
\* The history of call i of the topic emitter: up to its return, or to the
\* end when it has not returned.
EndOf(i) ==
    LET later == {k \in (i + 1)..Len(log) :
                    log[k].ev \in {"retTopic", "emitTopic", "uncaught"}}
    IN IF later = {} THEN Len(log) + 1
       ELSE CHOOSE k \in later : \A m \in later : k <= m
During(i) == (i + 1)..(EndOf(i) - 1)
EmitsAt(i, stream) ==
    {k \in During(i) : log[k].ev = "emit" /\ log[k].id = stream}
CallsDuring(i, c) ==
    {k \in During(i) : log[k].ev \in PureEvents /\ log[k].sub = c}
\* p inside nested objects keyed by the keys given, outermost first.
RECURSIVE Nested(_, _)
Nested(key, p) ==
    IF key = <<>> THEN p
    ELSE Nested(SubSeq(key, 1, Len(key) - 1), Obj(key[Len(key)] :> p))
PathExists(key) == \A j \in 0..Len(key) : Prefix(key, j) \in topicTree.nodes

C18_PrimitiveFansOutToPrefixes ==
    \A i \in TopicEmits :
       (log[i].val.t = "val" /\ PathExists(KeyOf(i))) =>
          LET key == KeyOf(i)
              eventful == {j \in 0..Len(key) :
                             Prefix(key, j) \in topicTree.events}
          IN /\ EndOf(i) <= Len(log) /\ log[EndOf(i)].ev = "retTopic"
             /\ \A j \in eventful :
                   LET es == EmitsAt(i, NodeStream(Prefix(key, j)))
                   IN /\ Cardinality(es) = 1
                      /\ \A k \in es :
                            log[k].val = Nested(Suffix(key, j), log[i].val)
             /\ \A j1, j2 \in eventful : j1 < j2 =>
                   \A k1 \in EmitsAt(i, NodeStream(Prefix(key, j1))),
                      k2 \in EmitsAt(i, NodeStream(Prefix(key, j2))) : k1 < k2
             /\ \A k \in During(i) : log[k].ev = "emit" =>
                   \E j \in eventful : log[k].id = NodeStream(Prefix(key, j))
             /\ \A c \in SubIdx :
                   IF \E j \in eventful :
                         subs[c].up = NodeStream(Prefix(key, j))
                   THEN /\ Cardinality(CallsDuring(i, c)) = 1
                        /\ \A k \in CallsDuring(i, c), j \in eventful :
                              subs[c].up = NodeStream(Prefix(key, j))
                              => log[k].val = Nested(Suffix(key, j), log[i].val)
                   ELSE CallsDuring(i, c) = {}

\* emitTopic('a', 'b', 1) with subscribers at the root, at a and at a.b:
\* they were called with {a: {b: 1}}, {b: 1} and 1.
C18_Witness ==
    \E i \in TopicEmits : \E c0, c1, c2 \in SubIdx :
       /\ log[i].val = Val(1) /\ KeyOf(i) = <<"a", "b">>
       /\ subs[c0].up = NodeStream(<<>>)
       /\ subs[c1].up = NodeStream(<<"a">>)
       /\ subs[c2].up = NodeStream(<<"a", "b">>)
       /\ \E k \in CallsDuring(i, c0) :
             log[k].val = Obj("a" :> Obj("b" :> Val(1)))
       /\ \E k \in CallsDuring(i, c1) : log[k].val = Obj("b" :> Val(1))
       /\ \E k \in CallsDuring(i, c2) : log[k].val = Val(1)

\* C19: a call emitTopic(...keys, obj) with an object payload emits nothing
\* of its own at the node addressed by keys: what the subscribers at that
\* node see is, for each primitive inside obj in key order, that primitive
\* nested under its path inside obj, coming from the recursion into the keys
\* of obj. The call returns when every node on the path of every primitive
\* exists; otherwise it raises at the first primitive with a node missing,
\* after the subscribers were called for the primitives up to that one.
RECURSIVE LeavesOf(_), LeavesUnder(_, _)
LeavesOf(payload) ==
    IF payload.t # "obj" THEN << [key |-> << >>, val |-> payload] >>
    ELSE LeavesUnder("a", payload) \o LeavesUnder("b", payload)
LeavesUnder(k, payload) ==
    IF k \notin DOMAIN payload.v THEN <<>>
    ELSE LET ls == LeavesOf(payload.v[k])
         IN [n \in 1..Len(ls) |->
                [key |-> <<k>> \o ls[n].key, val |-> ls[n].val]]
\* The leaves the call gets to: all of them, or those up to the first one
\* with a node missing on its path.
LeavesReached(key, payload) ==
    LET ls == LeavesOf(payload)
        missing == {n \in 1..Len(ls) : ~PathExists(key \o ls[n].key)}
    IN IF missing = {} THEN ls
       ELSE SubSeq(ls, 1, CHOOSE n \in missing : \A m \in missing : n <= m)
\* The values subscription c was called with during call i, in order.
Seen(i, c) ==
    LET calls == SelectSeq(SubSeq(log, i + 1, EndOf(i) - 1),
                           LAMBDA e : e.ev \in PureEvents /\ e.sub = c)
    IN [n \in 1..Len(calls) |-> calls[n].val]
ObjectEmits ==
    {i \in TopicEmits : log[i].val.t = "obj" /\ EndOf(i) <= Len(log)}
ObjectEmitsReturned == {i \in ObjectEmits : log[EndOf(i)].ev = "retTopic"}

C19_ObjectSeenOnlyThroughItsLeaves ==
    \A i \in ObjectEmits :
       LET ls == LeavesReached(KeyOf(i), log[i].val)
           all == LeavesOf(log[i].val)
       IN /\ (log[EndOf(i)].ev = "retTopic")
             = (\A n \in 1..Len(all) : PathExists(KeyOf(i) \o all[n].key))
          /\ \A c \in SubIdx :
                subs[c].up = log[i].id =>
                   Seen(i, c) =
                      [n \in 1..Len(ls) |-> Nested(ls[n].key, ls[n].val)]

\* C19 as stated: the subscribers at the node addressed by keys are called
\* with the full object.
C19_FullObjectDelivered ==
    \A i \in ObjectEmitsReturned : \A c \in SubIdx :
       subs[c].up = log[i].id =>
          \E k \in CallsDuring(i, c) : log[k].val = log[i].val

\* emitTopic({a: 1, b: 2}) returned and the subscriber at the root was
\* called with {a: 1} and then with {b: 2}.
C19_Witness ==
    \E i \in ObjectEmitsReturned : \E c \in SubIdx :
       /\ log[i].val = Obj("a" :> Val(1) @@ "b" :> Val(2))
       /\ subs[c].up = log[i].id
       /\ Seen(i, c) = <<Obj("a" :> Val(1)), Obj("b" :> Val(2))>>

\* C20: in every state of a topic, for every payload v, the subscribers at
\* onTopic('a') are called with the same values in the same order by
\* emitTopic('a', v) and by emitTopic({a: v}).
\* What the subscribers at the node of key are called with, in order, in the
\* history s adds to the present one.
ObservedAt(key, s) ==
    LET calls == SelectSeq(SubSeq(s.log, Len(log) + 1, Len(s.log)),
                           LAMBDA e : /\ e.ev \in PureEvents
                                      /\ subs[e.sub].up = NodeStream(key))
    IN [n \in 1..Len(calls) |-> [sub |-> calls[n].sub, val |-> calls[n].val]]

C20_KeyedAndObjectEmitsAgreeAtA ==
    \A v \in PayloadsUnderA :
       ObservedAt(<<"a">>, emitTopic(<<"a">>, v, St))
          = ObservedAt(<<"a">>, emitTopic(<<>>, Obj("a" :> v), St))

\* emitTopic({a: 1}) was called with a subscriber at a, which it called with
\* 1, as emitTopic('a', 1) would.
C20_Witness ==
    \E i \in ObjectEmitsReturned : \E c \in SubIdx :
       /\ log[i].val = Obj("a" :> Val(1)) /\ KeyOf(i) = <<>>
       /\ subs[c].up = NodeStream(<<"a">>)
       /\ Seen(i, c) = <<Val(1)>>
       /\ \E n \in 1..Len(ObservedAt(<<"a">>, emitTopic(<<"a">>, Val(1), St))) :
             ObservedAt(<<"a">>, emitTopic(<<"a">>, Val(1), St))[n]
                = [sub |-> c, val |-> Val(1)]

\* C21: a subscriber made with the key path given over several calls,
\* onTopic('a')('b', fn), is attached to the node the key path names, the
\* node of a subscriber made with onTopic('a', 'b', fn), and for every call
\* of the topic emitter is called with the same values in the same order
\* as every subscriber made for that key path in one call.
CompletedTopicEmits == {i \in TopicEmits : EndOf(i) <= Len(log)}

C21_PartialApplicationSameNode ==
    \A x \in PartialSubs :
       /\ log[x].sub \in SubIdx
       /\ \E key \in TopicPaths :
             log[x].em = Code(key) /\ subs[log[x].sub].up = NodeStream(key)
       /\ \A y \in PartialSubs :
             (log[y].em = log[x].em /\ log[y].id = 1) =>
                /\ subs[log[x].sub].up = subs[log[y].sub].up
                /\ \A i \in CompletedTopicEmits :
                      Seen(i, log[x].sub) = Seen(i, log[y].sub)

\* onTopic('a')('b', fn) and onTopic('a', 'b', fn) were both called, and
\* emitTopic('a', {b: 1}) called both subscribers with 1.
C21_Witness ==
    \E x, y \in PartialSubs : \E i \in CompletedTopicEmits :
       /\ log[x].em = Code(<<"a", "b">>) /\ log[x].id = 2
       /\ log[y].em = Code(<<"a", "b">>) /\ log[y].id = 1
       /\ KeyOf(i) = <<"a">> /\ log[i].val = Obj("b" :> Val(1))
       /\ Seen(i, log[x].sub) = <<Val(1)>>
       /\ Seen(i, log[y].sub) = <<Val(1)>>

\* C22: a call emitTopic(k1..kn, p) with a primitive p on a key path some
\* node of which does not exist returns without raising an error, having
\* called once the emitter of every prefix node that has an event.
C22_MissingNodesPassedOver ==
    \A i \in TopicEmits :
       (log[i].val.t = "val" /\ ~PathExists(KeyOf(i))) =>
          /\ EndOf(i) <= Len(log) /\ log[EndOf(i)].ev = "retTopic"
          /\ \A j \in 0..Len(KeyOf(i)) :
                Prefix(KeyOf(i), j) \in topicTree.events =>
                   Cardinality(EmitsAt(i, NodeStream(Prefix(KeyOf(i), j)))) = 1

\* C23: when a synchronous transform throws an error other than a
\* HaltError, the error leaves the emit call that made the transform run:
\* nothing else is called in that job, the emit does not return and the
\* job ends with that same error uncaught; no delivery from the throwing
\* subscription is on the pure queue for that emission and nothing
\* subscribed to the handler it derived is ever called for it.
Throws(i) ==
    /\ log[i].ev = "tr" /\ subs[log[i].sub].kind = "throw"
    /\ log[i].val.v % 2 = 1

C23_SyncErrorLeavesEmit ==
    \A i \in LogIdx : Throws(i) =>
       /\ i < Len(log)
       /\ log[i + 1].ev = "uncaught" /\ log[i + 1].val = Thrown(1)
       /\ \A j \in LogIdx : log[j].ev = "ret" => log[j].em # log[i].em
       /\ \A k \in 1..Len(pureQueue) :
             ~(pureQueue[k].stream = log[i].sub /\ pureQueue[k].em = log[i].em)
       /\ \A j \in LogIdx :
             (log[j].em = log[i].em /\ log[j].ev \in Callbacks)
             => log[j].sub \notin Downstream(log[i].sub)

\* A transform with a subscriber downstream threw on one emission, after a
\* sibling registered before it was called for that emission.
C23_Witness ==
    \E i, j \in LogIdx :
       /\ Throws(i) /\ Children(log[i].sub) # {}
       /\ log[j].ev \in PureEvents /\ log[j].em = log[i].em
       /\ subs[log[j].sub].up = subs[log[i].sub].up /\ j < i
       /\ i < Len(log) /\ log[i + 1].ev = "uncaught"

\* C24: when the promise of an async transform rejects with an error that
\* is not a HaltError, the emit that called the transform has returned, no
\* transform or effect at any depth downstream is called or enqueued for
\* that emission, and every promise derived downstream rejects with that
\* error: none of them settles to a HaltError value.
RejectedPromises == {p \in UserPromises : promises[p].out = Thrown(1)}

C24_AsyncErrorStaysRejected ==
    \A p \in RejectedPromises :
       /\ \A i \in LogIdx :
             (log[i].em = promises[p].em /\ log[i].ev \in Callbacks)
             => log[i].sub \notin Downstream(promises[p].sub)
       /\ \A d \in DerivedBelow(p) :
             /\ promises[d].out \in {Pending, Thrown(1)}
             /\ microtasks = <<>> => promises[d].out = Thrown(1)
       /\ \A r \in LogIdx :
             (log[r].ev = "reject" /\ log[r].id = p) =>
                /\ \E k \in 1..(r - 1) :
                      log[k].ev = "ret" /\ log[k].em = promises[p].em
                /\ \A k \in LogIdx : log[k].ev # "uncaught"

\* An async transform rejected above a transform with a listener
\* downstream, and the rejection reached the last stage.
C24_Witness ==
    \E p \in RejectedPromises : \E d \in DerivedBelow(p) :
       /\ promises[d].out = Thrown(1)
       /\ subs[promises[d].sub].kind = "lis"
       /\ subs[promises[d].sub].up # promises[p].sub

\* C25: on a graph of synchronous transforms, when an emit called by a
\* user task returns, every subscriber the emission reaches has been called
\* and every mutation effect and listener effect enqueued for it has run,
\* all between the call and its return: the three queues are empty once it
\* has returned, also while the microtask scheduleFlush queued is still
\* waiting, and nothing is called for the emission afterwards. The same holds for an emit made in
\* a later task, or in the same task as an earlier emit.
EmitOf(em) == CHOOSE k \in LogIdx : log[k].ev = "emit" /\ log[k].em = em
CalledWithin(c, em, a, b) ==
    \E k \in (a + 1)..(b - 1) :
       log[k].sub = c /\ log[k].em = em /\ log[k].ev \in PureEvents

C25_SyncEmitCompleteOnReturn ==
    \A r \in LogIdx : log[r].ev = "ret" =>
       LET em == log[r].em
           e == EmitOf(em)
       IN /\ e < r
          /\ \A c \in Children(0) : CalledWithin(c, em, e, r)
          /\ \A j \in LogIdx, c \in SubIdx :
                (/\ log[j].em = em /\ log[j].ev = "tr"
                 /\ subs[c].up = log[j].sub
                 /\ ~(subs[log[j].sub].kind = "halt" /\ log[j].val.v % 2 = 1))
                => CalledWithin(c, em, e, r)
          /\ \A j \in LogIdx :
                (log[j].em = em /\ log[j].ev \in Callbacks) => (e < j /\ j < r)
          /\ \A j \in LogIdx :
                (log[j].em = em /\ log[j].ev \in {"enqL", "enqM"}) =>
                   \E k \in (j + 1)..(r - 1) :
                      log[k].ev \in EffectEvents /\ log[k].id = log[j].id
          /\ pureQueue = <<>> /\ mutationListenerQueue = <<>>
          /\ listenerQueue = <<>>

\* An emit made while the microtask of an earlier emit was waiting has
\* just returned: a transform, a mutation effect and a listener effect ran
\* for it, and the microtask is still waiting.
C25_Witness ==
    \E i, j, k \in LogIdx :
       /\ log[i].ev = "tr" /\ log[j].ev = "mut" /\ log[k].ev = "lis"
       /\ log[i].em = 2 /\ log[j].em = 2 /\ log[k].em = 2
       /\ log[Len(log)].ev = "ret" /\ log[Len(log)].em = 2
       /\ microtasks # <<>>

\* C26: when a task of a queue throws (a transform in the pure queue, a
\* mutation effect or a listener effect, with an error that is not a
\* HaltError), the running flag of that queue stays true for the rest of
\* the run, no task of that queue is executed afterwards, and the tasks
\* left in the queue or pushed on it later stay in it: a later emission is
\* not delivered through that queue.
\* The queue whose task threw the exception reported at position u: the
\* call before it in the history is the call that threw.
QueueOf(u) ==
    IF log[u - 1].ev \in PureEvents THEN "pure"
    ELSE IF log[u - 1].ev = "mut" THEN "mutation" ELSE "listener"
Uncaught == {u \in LogIdx : log[u].ev = "uncaught"}
RunningFlag(q) ==
    IF q = "pure" THEN runningPureQueue
    ELSE IF q = "mutation" THEN runningMutationListenerQueue
    ELSE runningListenerQueue
\* The history entries of tasks of queue q being executed, and of tasks
\* being pushed on it.
ExecutedBy(q) ==
    IF q = "pure" THEN PureEvents
    ELSE IF q = "mutation" THEN {"mut"} ELSE {"lis"}
PushedOn(q) ==
    IF q = "pure" THEN {"emit"}
    ELSE IF q = "mutation" THEN {"enqM"} ELSE {"enqL"}
Waiting(q, k) ==
    IF q = "pure"
    THEN \E n \in 1..Len(pureQueue) :
            pureQueue[n].stream = 0 /\ pureQueue[n].em = log[k].em
    ELSE IF q = "mutation"
    THEN \E n \in 1..Len(mutationListenerQueue) :
            mutationListenerQueue[n].id = log[k].id
    ELSE \E n \in 1..Len(listenerQueue) : listenerQueue[n].id = log[k].id

C26_ThrowLeavesQueueStuck ==
    \A u \in Uncaught :
       /\ u > 1
       /\ RunningFlag(QueueOf(u))
       /\ \A k \in (u + 1)..Len(log) :
             /\ log[k].ev \notin ExecutedBy(QueueOf(u))
             /\ log[k].ev \in PushedOn(QueueOf(u)) => Waiting(QueueOf(u), k)
       /\ \A k \in 1..(u - 1) :
             (/\ log[k].ev \in PushedOn(QueueOf(u)) /\ QueueOf(u) # "pure"
              /\ ~RanBefore(log[k].id, u))
             => Waiting(QueueOf(u), k)

\* A listener effect threw; a later emit was made, its transforms ran and
\* its listener effect was pushed and is still waiting.
C26_Witness ==
    \E u \in Uncaught : \E k \in (u + 1)..Len(log) :
       /\ QueueOf(u) = "listener"
       /\ log[k].ev = "enqL" /\ Waiting("listener", k)
       /\ log[Len(log)].ev = "ret" /\ log[Len(log)].em = log[k].em
       /\ microtasks = <<>>

\* C27: a call of flushQueues made while the running flag of a queue is
\* set executes no task of that queue. The calls made in such a state are
\* those of an emit called by a task of the queue (or by a task that task
\* called): between the call of such an emit and its return no task of the
\* queue being drained is executed, so a queue is never drained from
\* inside its own drain.
C27_NoNestedDrain ==
    \A e \in LogIdx : log[e].ev = "emit" =>
       \A k \in (e + 1)..(RetOf(log[e].em) - 1) :
          /\ log[e].rp => log[k].ev \notin PureEvents
          /\ log[e].rm => log[k].ev # "mut"
          /\ log[e].rl => log[k].ev # "lis"

\* A listener effect called emit: during the nested call the transforms
\* were called and a mutation effect ran, the listener effect it enqueued
\* did not.
C27_Witness ==
    \E e \in LogIdx :
       /\ log[e].ev = "emit" /\ log[e].rl /\ ~log[e].rp /\ ~log[e].rm
       /\ \E k \in (e + 1)..(RetOf(log[e].em) - 1) : log[k].ev = "enqL"
       /\ \E k \in (e + 1)..(RetOf(log[e].em) - 1) : log[k].ev = "mut"

\* C28: the item a transform returns is delivered to the derived stream
\* by a task appended to the pure queue, never inline: for each emission,
\* every subscriber of a stream is called before any subscriber of a stream
\* derived from it, at any depth, and a subscriber of a derived stream is
\* called with the pure queue draining.
C28_BreadthFirstPropagation ==
    /\ \A i, j \in LogIdx :
          (/\ log[i].ev \in PureEvents /\ log[j].ev \in PureEvents
           /\ log[i].em = log[j].em
           /\ StreamAbove(subs[log[i].sub].up, subs[log[j].sub].up))
          => i < j
    /\ \A i \in LogIdx : log[i].ev \in PureEvents => log[i].rp

\* A transform on the event's handler registered after a subscriber of a
\* derived handler was called before it.
C28_Witness ==
    \E i, j \in LogIdx :
       /\ log[i].ev = "tr" /\ log[j].ev \in PureEvents
       /\ log[i].em = log[j].em
       /\ subs[log[i].sub].up = 0 /\ subs[log[j].sub].up # 0
       /\ log[i].sub > log[j].sub
       /\ i < j

\* C29: within each queue, of two tasks that are both executed the one
\* pushed first is executed first. A task of the pure queue is pushed by
\* the call of emit or by the call of the transform whose result it
\* delivers, and executing it calls the subscribers of its stream; an
\* effect is pushed by the transform of its listener.
PurePushes ==
    {i \in LogIdx : log[i].ev = "emit" \/ log[i].ev = "tr"}
PushStream(i) == IF log[i].ev = "emit" THEN 0 ELSE log[i].sub
\* The calls made by the task pushed at position i.
ExecOf(i) ==
    {k \in LogIdx : /\ log[k].ev \in PureEvents /\ log[k].em = log[i].em
                    /\ subs[log[k].sub].up = PushStream(i)}
EffectPushes == {i \in LogIdx : log[i].ev \in {"enqL", "enqM"}}
RunsOf(i) ==
    {k \in LogIdx : log[k].ev \in EffectEvents /\ log[k].id = log[i].id}

C29_QueuesAreFifo ==
    /\ \A i, j \in PurePushes : i < j =>
          \A x \in ExecOf(i), y \in ExecOf(j) : x < y
    /\ \A i, j \in EffectPushes :
          (i < j /\ log[i].ev = log[j].ev) =>
             \A x \in RunsOf(i), y \in RunsOf(j) : x < y

\* Two deliveries of one emission to two derived handlers were on the pure
\* queue together and ran in the order pushed, and two effects of one
\* queue pushed by different emissions ran in the order pushed.
C29_Witness ==
    /\ \E i, j \in PurePushes :
          /\ i < j /\ log[i].ev = "tr" /\ log[j].ev = "tr"
          /\ log[i].em = log[j].em
          /\ subs[log[i].sub].up = subs[log[j].sub].up
          /\ ExecOf(i) # {} /\ ExecOf(j) # {}
    /\ \E i, j \in EffectPushes :
          /\ i < j /\ log[i].ev = log[j].ev /\ log[i].em # log[j].em
          /\ RunsOf(i) # {} /\ RunsOf(j) # {}

\* C30: every effect pushed on the mutation queue or the listener queue is
\* executed at most once over the run, and once it has run it is no longer
\* in its queue when the job ends: a later emit or the microtask flush does
\* not run it again.
C30_EffectsRunAtMostOnce ==
    \A i \in EffectPushes :
       /\ Cardinality(RunsOf(i)) <= 1
       /\ RunsOf(i) # {} => ~Queued(log[i].id)

\* A listener effect of the first emission ran, and after it the microtask
\* flush ran and a second emit was made and returned.
C30_Witness ==
    \E i \in EffectPushes : \E r \in LogIdx :
       /\ log[i].ev = "enqL" /\ log[i].em = 1
       /\ Cardinality(RunsOf(i)) = 1
       /\ log[r].ev = "ret" /\ log[r].em = 2 /\ ~log[r].rl
       /\ \A x \in RunsOf(i) : x < r
       /\ microtasks = <<>> /\ ~scheduled

\* An effect was pushed while no queue was being drained.
OutsideFlush(i) ==
    /\ log[i].ev \in {"enqL", "enqM"}
    /\ ~log[i].rp /\ ~log[i].rm /\ ~log[i].rl

\* An effect pushed outside a flush that has not run.
Unrun == {i \in LogIdx : OutsideFlush(i) /\ RunsOf(i) = {}}

\* The job that pushes an effect outside a flush ends with the effect
\* still on its queue, not run, and with the flush microtask waiting.
NotRunInEnqueueingCall ==
    LET l == log'
        lq == listenerQueue'
        mq == mutationListenerQueue'
        mt == microtasks'
    IN \A i \in (1..Len(l)) \ LogIdx :
          (/\ l[i].ev \in {"enqL", "enqM"}
           /\ ~l[i].rp /\ ~l[i].rm /\ ~l[i].rl)
          => /\ \A k \in 1..Len(l) :
                   ~(l[k].ev \in EffectEvents /\ l[k].id = l[i].id)
             /\ \/ \E k \in 1..Len(lq) : lq[k].id = l[i].id
                \/ \E k \in 1..Len(mq) : mq[k].id = l[i].id
             /\ scheduled'
             /\ \E m \in 1..Len(mt) : mt[m] = FlushJob

\* C31: an effect that the continuation of a resolved async transform
\* pushes while no queue is being drained is not run by the job that pushed
\* it, and a flush run from a microtask executes it later.
C31_ScheduledFlushRunsEffect ==
    /\ [][NotRunInEnqueueingCall]_vars
    /\ (Unrun # {}) ~> (Unrun = {})

\* An effect pushed outside a flush, after a promise resolved, has run in
\* the listener drain of the flush microtask.
C31_Witness ==
    \E i \in LogIdx : \E k \in RunsOf(i) : \E r \in LogIdx :
       /\ OutsideFlush(i)
       /\ log[r].ev = "resolve" /\ r < i /\ i < k
       /\ log[k].rl
       /\ ~scheduled /\ microtasks = << >>

\* The flush microtasks the host holds.
FlushesPending == {m \in 1..Len(microtasks) : microtasks[m] = FlushJob}
NoDrain ==
    /\ ~runningPureQueue
    /\ ~runningMutationListenerQueue
    /\ ~runningListenerQueue

\* C32: while no task has thrown, a state in which no queue is being
\* drained and no flush is scheduled has its pure, mutation and listener
\* queues empty; and the host never holds more than one flush microtask.
C32_NoWorkStranded ==
    /\ (Uncaught = {} /\ NoDrain /\ ~scheduled)
       => /\ pureQueue = << >>
          /\ mutationListenerQueue = << >>
          /\ listenerQueue = << >>
    /\ Cardinality(FlushesPending) <= 1

\* Two effects were pushed outside a flush by the continuations of a
\* resolved promise, one flush microtask ran them both, and nothing is
\* scheduled or queued any more.
C32_Witness ==
    /\ Uncaught = {} /\ NoDrain /\ ~scheduled /\ microtasks = << >>
    /\ \E i, j \in LogIdx :
          /\ i < j
          /\ OutsideFlush(i) /\ OutsideFlush(j)
          /\ RunsOf(i) # {} /\ RunsOf(j) # {}
          /\ \A k \in RunsOf(i) \cup RunsOf(j) : k > j

\* The subscriptions made at a node, as the history records them, and the
\* node a Subject was made for.
OnsAt(key) == {x \in LogIdx : log[x].ev = "on" /\ log[x].em = Code(key)}
MadeFor(stream, key) ==
    \E n \in 1..(Len(subs) + 1) : stream = EventStream(key, n)

\* A step removes no node and no event, and leaves the pair of every
\* node that holds one in place.
TreeGrows ==
    /\ topicTree.nodes \subseteq topicTree'.nodes
    /\ topicTree.events \subseteq topicTree'.events
    /\ \A key \in topicTree.events :
          CurrentEvent(key, topicTree') = CurrentEvent(key, topicTree)

\* The subscriptions made at one key path are all on the Subject of the
\* one pair their node holds, and an emission at the node calls each of
\* those made before it once, and none made after it.
OneEventPerNode ==
    \A key \in TopicPaths :
       /\ \A x \in OnsAt(key) :
             /\ key \in topicTree.events
             /\ subs[log[x].sub].up = CurrentEvent(key, topicTree)
       /\ \A k \in LogIdx :
             (log[k].ev = "emit" /\ MadeFor(log[k].id, key)) =>
                \A x \in OnsAt(key) :
                   Cardinality({c \in LogIdx :
                                   /\ log[c].ev = "tr"
                                   /\ log[c].sub = log[x].sub
                                   /\ log[c].em = log[k].em})
                   = (IF x < k THEN 1 ELSE 0)

\* C33: a topic node once created is never removed and the event pair it
\* holds is never replaced, so the subscriptions made at one key path, at
\* any time, share one event and every emission at the node reaches all
\* the subscriptions made there before it.
C33_TopicNodesMonotonic ==
    /\ [][TreeGrows]_vars
    /\ []OneEventPerNode

\* A subscription was made at a node, the node was emitted to, a second
\* subscription was made at the same node, and a second emission there
\* called both subscribers.
C33_Witness ==
    \E key \in TopicPaths : \E x, y \in OnsAt(key) : \E k1, k2 \in LogIdx :
       /\ x < k1 /\ k1 < y /\ y < k2
       /\ log[k1].ev = "emit" /\ MadeFor(log[k1].id, key)
       /\ log[k2].ev = "emit" /\ MadeFor(log[k2].id, key)
       /\ \E c \in LogIdx : /\ log[c].ev = "tr" /\ log[c].sub = log[x].sub
                             /\ log[c].em = log[k2].em
       /\ \E c \in LogIdx : /\ log[c].ev = "tr" /\ log[c].sub = log[y].sub
                             /\ log[c].em = log[k2].em

====
